---- MODULE Spec2Model ----
(***************************************************************************)
(* Draw-language interpreter: the two automaton encodings, the string      *)
(* input source, the scanner (SimpleLexer), the recursive-descent parser   *)
(* (DrawLangParser) with the AST value() functions, and the semantic       *)
(* analyzer (DrawLangSemanticAnalyzer) that executes the statements.       *)
(*                                                                         *)
(* Characters are one-character strings; a text (source, lexeme) is a      *)
(* sequence of characters.  NUL is the '\0' that nextChar returns at end   *)
(* of input.  HiByte stands for a byte >= 0x80 (a negative char).          *)
(***************************************************************************)
EXTENDS Integers, Sequences, FiniteSets, TLC

VARIABLES source, dfaType, input, hasMore_, dfa_, tokens, callPos, config_,
          interpreter, errorLog,
          pc, currentToken_, lastToken_, astRoot_, errors_, iterPos,
          errorCount_, firstParse, parser_, originX_, originY_, scaleX_,
          scaleY_, rotAngle_, tStorage_, attr_, drawnPixels_, stmtIndex,
          loopEndVal, loopStepVal, pointCount

vars == <<source, dfaType, input, hasMore_, dfa_, tokens, callPos, config_,
          interpreter, errorLog,
          pc, currentToken_, lastToken_, astRoot_, errors_, iterPos,
          errorCount_, firstParse, parser_, originX_, originY_, scaleX_,
          scaleY_, rotAngle_, tStorage_, attr_, drawnPixels_, stmtIndex,
          loopEndVal, loopStepVal, pointCount>>

lexVars == <<input, hasMore_, dfa_, tokens, callPos>>
parseVars == <<pc, currentToken_, lastToken_, astRoot_, errors_, iterPos>>
\* the analyzer's members, the pixels its callback has recorded, and the
\* position of run and drawLoop
semVars == <<parser_, originX_, originY_, scaleX_, scaleY_, rotAngle_,
             tStorage_, attr_, drawnPixels_, stmtIndex, loopEndVal,
             loopStepVal, pointCount>>

-----------------------------------------------------------------------------
(* Characters                                                              *)

NUL == "NUL"
HiByte == "0x80"

AsciiPrintable ==
  << " ", "!", "DQUOTE", "#", "$", "%", "&", "'", "(", ")", "*", "+", ",", "-",
     ".", "/", "0", "1", "2", "3", "4", "5", "6", "7", "8", "9", ":", ";",
     "<", "=", ">", "?", "@", "A", "B", "C", "D", "E", "F", "G", "H", "I",
     "J", "K", "L", "M", "N", "O", "P", "Q", "R", "S", "T", "U", "V", "W",
     "X", "Y", "Z", "[", "BSLASH", "]", "^", "_", "BQUOTE", "a", "b", "c", "d", "e",
     "f", "g", "h", "i", "j", "k", "l", "m", "n", "o", "p", "q", "r", "s",
     "t", "u", "v", "w", "x", "y", "z", "{", "|", "}", "~" >>

CharSet == {AsciiPrintable[i] : i \in 1..95} \cup {"\t", "\n", "\r", HiByte}

\* the value of a char: ASCII code, negative for a byte >= 0x80
CharCode ==
  [c \in CharSet |->
     CASE c = "\t" -> 9
       [] c = "\n" -> 10
       [] c = "\r" -> 13
       [] c = HiByte -> 0 - 128
       [] OTHER -> 31 + (CHOOSE i \in 1..95 : AsciiPrintable[i] = c)]

Ord(c) == CharCode[c]
Chr(n) == AsciiPrintable[n - 31]

InRange(c, lo, hi) == Ord(lo) <= Ord(c) /\ Ord(c) <= Ord(hi)

-----------------------------------------------------------------------------
(* Table-driven automaton                                                  *)

CK_CHAR == 0
CK_LETTER == 65536
CK_DIGIT == 131072

\* ((unsigned)(from << 24)) | c, the 32-bit pattern written as a signed
\* number: the fields do not overlap for c >= 0; a negative c is sign-extended
\* and sets every bit above the low byte, whatever from is (from <= 255).
MK_KEY(from, c) == IF c < 0 THEN c ELSE from * 16777216 + c

DEF_TRANS(from, C, to) == [key |-> MK_KEY(from, C), toState |-> to]

TableDrivenDFA_transitions_ ==
  << DEF_TRANS(0, CK_LETTER, 1), DEF_TRANS(0, CK_DIGIT, 2),
     DEF_TRANS(0, Ord("*"), 4), DEF_TRANS(0, Ord("/"), 6),
     DEF_TRANS(0, Ord("+"), 8), DEF_TRANS(0, Ord("-"), 7),
     DEF_TRANS(0, Ord(","), 9), DEF_TRANS(0, Ord(";"), 10),
     DEF_TRANS(0, Ord("("), 11), DEF_TRANS(0, Ord(")"), 12),
     DEF_TRANS(1, CK_LETTER, 1), DEF_TRANS(1, CK_DIGIT, 1),
     DEF_TRANS(2, CK_DIGIT, 2), DEF_TRANS(2, Ord("."), 3),
     DEF_TRANS(2, Ord("e"), 14), DEF_TRANS(2, Ord("E"), 14),
     DEF_TRANS(3, CK_DIGIT, 3), DEF_TRANS(3, Ord("e"), 14),
     DEF_TRANS(3, Ord("E"), 14),
     DEF_TRANS(4, Ord("*"), 5),
     DEF_TRANS(6, Ord("/"), 13),
     DEF_TRANS(7, Ord("-"), 13),
     DEF_TRANS(14, Ord("+"), 15), DEF_TRANS(14, Ord("-"), 15),
     DEF_TRANS(14, CK_DIGIT, 16),
     DEF_TRANS(15, CK_DIGIT, 16),
     DEF_TRANS(16, CK_DIGIT, 16) >>

TableDrivenDFA_finalStates_ ==
  << [state |-> 1, tokenType |-> "Identifier"],
     [state |-> 2, tokenType |-> "Literal"],
     [state |-> 3, tokenType |-> "Literal"],
     [state |-> 4, tokenType |-> "Operator"],
     [state |-> 5, tokenType |-> "Operator"],
     [state |-> 6, tokenType |-> "Operator"],
     [state |-> 7, tokenType |-> "Operator"],
     [state |-> 8, tokenType |-> "Operator"],
     [state |-> 9, tokenType |-> "Punctuation"],
     [state |-> 10, tokenType |-> "Punctuation"],
     [state |-> 11, tokenType |-> "Punctuation"],
     [state |-> 12, tokenType |-> "Punctuation"],
     [state |-> 13, tokenType |-> "Comment"],
     [state |-> 16, tokenType |-> "Literal"] >>

TableDrivenDFA_getCharClass(c) ==
  IF InRange(c, "a", "z") \/ InRange(c, "A", "Z") \/ c = "_" THEN CK_LETTER
  ELSE IF InRange(c, "0", "9") THEN CK_DIGIT
  ELSE CK_CHAR

\* the target of the first entry of table with the key, -1 when there is
\* none
FirstEntry(table, key) ==
  LET hits == {i \in 1..Len(table) : table[i].key = key}
  IN IF hits = {} THEN 0 - 1
     ELSE table[CHOOSE i \in hits : \A j \in hits : i <= j].toState

TableLookup(key) == FirstEntry(TableDrivenDFA_transitions_, key)

\* the key move looks up first: by character class, or by the character
\* when it has no class
ClassKey(fromState, c, charClass) ==
  IF charClass = CK_CHAR THEN MK_KEY(fromState, Ord(c))
  ELSE MK_KEY(fromState, charClass)

\* move after its first lookup found the state first, or nothing (-1)
ExactMatch(first, fromState, c, charClass) ==
  IF first >= 0 THEN first
  ELSE IF charClass # CK_CHAR THEN TableLookup(MK_KEY(fromState, Ord(c)))
  ELSE 0 - 1

MoveByClass(fromState, c, charClass) ==
  ExactMatch(TableLookup(ClassKey(fromState, c, charClass)), fromState, c,
             charClass)

\* move without the second lookup by literal character
TableDrivenDFA_move_NoCharFallback(fromState, c) ==
  TableLookup(ClassKey(fromState, c, TableDrivenDFA_getCharClass(c)))

TableDrivenDFA_move(fromState, c) ==
  MoveByClass(fromState, c, TableDrivenDFA_getCharClass(c))

\* the token type of the first entry of table for the state
FirstFinal(table, state) ==
  LET hits == {i \in 1..Len(table) : table[i].state = state}
  IN IF hits = {} THEN "Invalid"
     ELSE table[CHOOSE i \in hits : \A j \in hits : i <= j].tokenType

TableDrivenDFA_stateIsFinal(state) ==
  FirstFinal(TableDrivenDFA_finalStates_, state)

-----------------------------------------------------------------------------
(* Directly-coded automaton                                                *)

IsLetterHC(ch) == InRange(ch, "a", "z") \/ InRange(ch, "A", "Z") \/ ch = "_"
IsDigitHC(ch) == InRange(ch, "0", "9")

HardCodedDFA_move(state, ch) ==
  CASE state = 0 ->
         IF IsLetterHC(ch) THEN 1
         ELSE IF IsDigitHC(ch) THEN 2
         ELSE IF ch = "*" THEN 4
         ELSE IF ch = "/" THEN 6
         ELSE IF ch = "+" THEN 8
         ELSE IF ch = "-" THEN 7
         ELSE IF ch = "," THEN 9
         ELSE IF ch = ";" THEN 10
         ELSE IF ch = "(" THEN 11
         ELSE IF ch = ")" THEN 12
         ELSE 0 - 1
    [] state = 1 -> IF IsLetterHC(ch) \/ IsDigitHC(ch) THEN 1 ELSE 0 - 1
    [] state = 2 ->
         IF ch = "." THEN 3
         ELSE IF IsDigitHC(ch) THEN 2
         ELSE IF ch = "e" \/ ch = "E" THEN 14
         ELSE 0 - 1
    [] state = 3 ->
         IF IsDigitHC(ch) THEN 3
         ELSE IF ch = "e" \/ ch = "E" THEN 14
         ELSE 0 - 1
    [] state = 4 -> IF ch = "*" THEN 5 ELSE 0 - 1
    [] state = 6 -> IF ch = "/" THEN 13 ELSE 0 - 1
    [] state = 7 -> IF ch = "-" THEN 13 ELSE 0 - 1
    [] state = 14 ->
         IF ch = "+" \/ ch = "-" THEN 15
         ELSE IF IsDigitHC(ch) THEN 16
         ELSE 0 - 1
    [] state = 15 -> IF IsDigitHC(ch) THEN 16 ELSE 0 - 1
    [] state = 16 -> IF IsDigitHC(ch) THEN 16 ELSE 0 - 1
    [] OTHER -> 0 - 1

HardCodedDFA_stateIsFinal(state) ==
  CASE state = 1 -> "Identifier"
    [] state \in {2, 3, 16} -> "Literal"
    [] state \in {4, 5, 6, 7, 8} -> "Operator"
    [] state \in {9, 10, 11, 12} -> "Punctuation"
    [] state = 13 -> "Comment"
    [] OTHER -> "Invalid"

-----------------------------------------------------------------------------
(* The AbstractDFA interface over the two encodings                        *)

DFATypes == {"TableDriven", "HardCoded"}

move(kind, state, c) ==
  IF kind = "TableDriven" THEN TableDrivenDFA_move(state, c)
  ELSE HardCodedDFA_move(state, c)

stateIsFinal(kind, state) ==
  IF kind = "TableDriven" THEN TableDrivenDFA_stateIsFinal(state)
  ELSE HardCodedDFA_stateIsFinal(state)

\* updateStateInfo: the classification of the current state
updateStateInfo(kind, state) ==
  LET Info(tokenType) ==
        IF state = 0 THEN [type |-> "Start", tokenType |-> "Invalid"]
        ELSE IF tokenType # "Invalid"
          THEN [type |-> "Accepting", tokenType |-> tokenType]
        ELSE IF state < 0 THEN [type |-> "Error", tokenType |-> "Invalid"]
        ELSE [type |-> "Rejecting", tokenType |-> "Invalid"]
  IN Info(stateIsFinal(kind, state))

DFAReset == [currentState |-> 0, processedInput |-> <<>>, savedStates |-> <<>>]

\* feed that takes the character into the lexeme also when it is rejected
feed_AppendAlways(kind, d, c) ==
  LET To(nextState) ==
        IF nextState < 0
        THEN [ok |-> FALSE, dfa |-> [d EXCEPT !.processedInput = Append(@, c)]]
        ELSE [ok |-> TRUE,
              dfa |-> [d EXCEPT !.currentState = nextState,
                                !.processedInput = Append(@, c)]]
  IN IF d.currentState < 0 THEN [ok |-> FALSE, dfa |-> d]
     ELSE To(move(kind, d.currentState, c))

\* feed: [ok, dfa]
feed(kind, d, c) ==
  LET To(nextState) ==
        IF nextState < 0 THEN [ok |-> FALSE, dfa |-> d]
        ELSE [ok |-> TRUE,
              dfa |-> [d EXCEPT !.currentState = nextState,
                                !.processedInput = Append(@, c)]]
  IN IF d.currentState < 0 THEN [ok |-> FALSE, dfa |-> d]
     ELSE To(move(kind, d.currentState, c))

isAccepting(kind, d) == updateStateInfo(kind, d.currentState).type = "Accepting"

isError(kind, d) ==
  d.currentState < 0 \/ updateStateInfo(kind, d.currentState).type = "Error"

\* the loop of backtrack: the state after str, read from state, -1 as soon
\* as a character has no transition
RECURSIVE rescan(_, _, _)
rescan(kind, state, str) ==
  IF str = <<>> \/ state < 0 THEN state
  ELSE rescan(kind, move(kind, state, Head(str)), Tail(str))

\* backtrack that drops the last character and keeps the current state
backtrack_KeepState(kind, d) ==
  IF d.processedInput # <<>>
  THEN [d EXCEPT !.processedInput = SubSeq(@, 1, Len(@) - 1)]
  ELSE d

backtrack(kind, d) ==
  IF d.processedInput # <<>>
  THEN LET str == SubSeq(d.processedInput, 1, Len(d.processedInput) - 1)
       IN [d EXCEPT !.processedInput = str,
                    !.currentState = rescan(kind, 0, str)]
  ELSE d

\* savedStates: the top of the stack is the last element
saveState(d) ==
  [d EXCEPT !.savedStates =
     Append(@, [state |-> d.currentState, input |-> d.processedInput])]

\* restoreState that returns to the oldest snapshot and drops it
restoreState_Oldest(d) ==
  IF d.savedStates # <<>>
  THEN [currentState |-> Head(d.savedStates).state,
        processedInput |-> Head(d.savedStates).input,
        savedStates |-> Tail(d.savedStates)]
  ELSE d

restoreState(d) ==
  IF d.savedStates # <<>>
  THEN LET saved == d.savedStates[Len(d.savedStates)]
       IN [currentState |-> saved.state,
           processedInput |-> saved.input,
           savedStates |-> SubSeq(d.savedStates, 1, Len(d.savedStates) - 1)]
  ELSE d

\* getAcceptedTokenType that takes the states of an unfinished exponent
\* for accepting states of a literal
getAcceptedTokenType_OpenExponent(kind, d) ==
  LET Accepted(info) ==
        IF info.type = "Accepting" THEN info.tokenType
        ELSE IF d.currentState \in {14, 15} THEN "Literal"
        ELSE "Invalid"
  IN Accepted(updateStateInfo(kind, d.currentState))

getAcceptedTokenType(kind, d) ==
  LET Accepted(info) ==
        IF info.type = "Accepting" THEN info.tokenType ELSE "Invalid"
  IN Accepted(updateStateInfo(kind, d.currentState))

-----------------------------------------------------------------------------
(* StringInputSource: location = [position, line, column]                  *)

InitLocation == [position |-> 0, line |-> 1, column |-> 1]

StringInputSource_nextChar(src, loc) ==
  IF loc.position >= Len(src) THEN [c |-> NUL, loc |-> loc]
  ELSE LET c == src[loc.position + 1]
       IN [c |-> c,
           loc |-> [position |-> loc.position + 1,
                    line |-> IF c = "\n" THEN loc.line + 1 ELSE loc.line,
                    column |-> IF c = "\n" THEN 1 ELSE loc.column + 1]]

RECURSIVE LineStart(_, _)
LineStart(src, lineStart) ==
  IF lineStart > 0 /\ src[lineStart] # "\n" THEN LineStart(src, lineStart - 1)
  ELSE lineStart

\* ungetChar that puts the column back to 1 when it rolls back a newline,
\* instead of looking for the start of the line before
StringInputSource_ungetChar_ColumnOne(src, loc) ==
  IF loc.position > 0
  THEN LET p == loc.position - 1
           c == src[p + 1]
       IN IF c = "\n"
          THEN [position |-> p, line |-> loc.line - 1, column |-> 1]
          ELSE [position |-> p, line |-> loc.line, column |-> loc.column - 1]
  ELSE loc

StringInputSource_ungetChar(src, loc) ==
  IF loc.position > 0
  THEN LET p == loc.position - 1
           c == src[p + 1]
       IN IF c = "\n"
          THEN [position |-> p, line |-> loc.line - 1,
                column |-> p - LineStart(src, p) + 1]
          ELSE [position |-> p, line |-> loc.line, column |-> loc.column - 1]
  ELSE loc

StringInputSource_eof(src, loc) == loc.position >= Len(src)


-----------------------------------------------------------------------------
(* SimpleLexer                                                             *)

Token(type, lexeme, keyword, literalType, loc) ==
  [type |-> type, lexeme |-> lexeme, keyword |-> keyword,
   literalType |-> literalType, line |-> loc.line, column |-> loc.column,
   position |-> loc.position]

\* postProcess's nullptr: "no token, scan again"
NoToken == Token("NoToken", <<>>, "None", "None", InitLocation)

\* Token(): the default-constructed token
DefaultToken == Token("Invalid", <<>>, "None", "None", InitLocation)

predefinedSymbols ==
  << [name |-> <<"P", "I">>, type |-> "Literal", keyword |-> "None"],
     [name |-> <<"E">>, type |-> "Literal", keyword |-> "None"],
     [name |-> <<"X", "D">>, type |-> "Literal", keyword |-> "None"],
     [name |-> <<"W", "X", "Q">>, type |-> "Literal", keyword |-> "None"],
     [name |-> <<"T">>, type |-> "Keyword", keyword |-> "T"],
     [name |-> <<"S", "I", "N">>, type |-> "Keyword", keyword |-> "Func"],
     [name |-> <<"C", "O", "S">>, type |-> "Keyword", keyword |-> "Func"],
     [name |-> <<"T", "A", "N">>, type |-> "Keyword", keyword |-> "Func"],
     [name |-> <<"L", "N">>, type |-> "Keyword", keyword |-> "Func"],
     [name |-> <<"E", "X", "P">>, type |-> "Keyword", keyword |-> "Func"],
     [name |-> <<"S", "Q", "R", "T">>, type |-> "Keyword", keyword |-> "Func"],
     [name |-> <<"_", "A", "Y", "Y", "_">>, type |-> "Keyword", keyword |-> "Func"],
     [name |-> <<"O", "R", "I", "G", "I", "N">>, type |-> "Keyword", keyword |-> "Origin"],
     [name |-> <<"S", "C", "A", "L", "E">>, type |-> "Keyword", keyword |-> "Scale"],
     [name |-> <<"R", "O", "T">>, type |-> "Keyword", keyword |-> "Rot"],
     [name |-> <<"I", "S">>, type |-> "Keyword", keyword |-> "Assign"],
     [name |-> <<"F", "O", "R">>, type |-> "Keyword", keyword |-> "For"],
     [name |-> <<"F", "R", "O", "M">>, type |-> "Keyword", keyword |-> "From"],
     [name |-> <<"T", "O">>, type |-> "Keyword", keyword |-> "To"],
     [name |-> <<"S", "T", "E", "P">>, type |-> "Keyword", keyword |-> "Step"],
     [name |-> <<"D", "R", "A", "W">>, type |-> "Keyword", keyword |-> "Draw"],
     [name |-> <<"C", "O", "L", "O", "R">>, type |-> "Keyword", keyword |-> "Color"],
     [name |-> <<"S", "I", "Z", "E">>, type |-> "Keyword", keyword |-> "Size"] >>

SizeName == <<"S", "I", "Z", "E">>
SizeAliases == {<<"P", "I", "X", "E", "L", "S", "I", "Z", "E">>, <<"P", "I", "X", "S", "I", "Z", "E">>, <<"P", "I", "X">>}

\* the symbol table after initSymbolTable: name -> [type, keyword]
initSymbolTable ==
  LET n == Len(predefinedSymbols)
      names == {predefinedSymbols[i].name : i \in 1..n}
      entry(nm) ==
        LET i == CHOOSE i \in 1..n :
                   /\ predefinedSymbols[i].name = nm
                   /\ \A j \in 1..n : predefinedSymbols[j].name = nm => j <= i
        IN [type |-> predefinedSymbols[i].type,
            keyword |-> predefinedSymbols[i].keyword]
  IN IF SizeName \in names
     THEN [nm \in names \cup SizeAliases |->
             IF nm \in SizeAliases THEN entry(SizeName) ELSE entry(nm)]
     ELSE [nm \in names |-> entry(nm)]

symbolTable_ == initSymbolTable

getOperatorKeyword(op) ==
  CASE op = <<"+">> -> "Plus"
    [] op = <<"-">> -> "Minus"
    [] op = <<"*">> -> "Mul"
    [] op = <<"/">> -> "Div"
    [] op = <<"*", "*">> -> "Power"
    [] OTHER -> "None"

getPunctuationKeyword(punct) ==
  CASE punct = <<"(">> -> "L_bracket"
    [] punct = <<")">> -> "R_bracket"
    [] punct = <<";">> -> "Semico"
    [] punct = <<",">> -> "Comma"
    [] OTHER -> "None"

SimpleLexer_getChar(src, loc) == StringInputSource_nextChar(src, loc)

SimpleLexer_ungetChar(src, c, loc) ==
  IF c = NUL \/ c = "\n" THEN loc ELSE StringInputSource_ungetChar(src, loc)

SimpleLexer_isSpace(c) ==
  IF Ord(c) < 0 \/ Ord(c) > 126 THEN FALSE
  ELSE Ord(c) \in {9, 10, 11, 12, 13, 32}

\* preProcess that returns the first character without skipping whitespace
preProcess_NoSkip(src, loc) == SimpleLexer_getChar(src, loc)

RECURSIVE preProcess(_, _)
preProcess(src, loc) ==
  IF SimpleLexer_getChar(src, loc).c = NUL
     \/ ~SimpleLexer_isSpace(SimpleLexer_getChar(src, loc).c)
  THEN SimpleLexer_getChar(src, loc)
  ELSE preProcess(src, SimpleLexer_getChar(src, loc).loc)

\* The loop of scanMove on st = [c, lexeme, dfa, loc]: the character in
\* hand, the lexeme so far, the automaton and the input cursor.

\* lexeme += c; c = getChar()
scanAccept(kind, src, st) ==
  [c |-> SimpleLexer_getChar(src, st.loc).c,
   lexeme |-> Append(st.lexeme, st.c),
   dfa |-> feed(kind, st.dfa, st.c).dfa,
   loc |-> SimpleLexer_getChar(src, st.loc).loc]

\* the scan loop that does not push the rejected character back
RECURSIVE scanLoop_NoPushback(_, _, _)
scanLoop_NoPushback(kind, src, st) ==
  IF st.c = NUL THEN st
  ELSE IF feed(kind, st.dfa, st.c).ok
    THEN scanLoop_NoPushback(kind, src, scanAccept(kind, src, st))
  ELSE IF st.lexeme = <<>> THEN [st EXCEPT !.lexeme = <<st.c>>]
  ELSE st

\* scanMove's loop that also pushes back a character rejected in the
\* start state
RECURSIVE scanLoop_UngetFirst(_, _, _)
scanLoop_UngetFirst(kind, src, st) ==
  IF st.c = NUL THEN st
  ELSE IF feed(kind, st.dfa, st.c).ok
    THEN scanLoop_UngetFirst(kind, src, scanAccept(kind, src, st))
  ELSE IF st.lexeme = <<>>
    THEN [st EXCEPT !.lexeme = <<st.c>>,
                    !.loc = SimpleLexer_ungetChar(src, st.c, st.loc)]
  ELSE [st EXCEPT !.loc = SimpleLexer_ungetChar(src, st.c, st.loc)]

RECURSIVE scanLoop(_, _, _)
scanLoop(kind, src, st) ==
  IF st.c = NUL THEN st
  ELSE IF feed(kind, st.dfa, st.c).ok
    THEN scanLoop(kind, src, scanAccept(kind, src, st))
  ELSE IF st.lexeme = <<>> THEN [st EXCEPT !.lexeme = <<st.c>>]
  ELSE [st EXCEPT !.loc = SimpleLexer_ungetChar(src, st.c, st.loc)]

scanMove(kind, src, firstChar, loc) ==
  scanLoop(kind, src,
           [c |-> firstChar, lexeme |-> <<>>, dfa |-> DFAReset, loc |-> loc])

RECURSIVE skipToEndOfLine(_, _)
skipToEndOfLine(src, loc) ==
  IF SimpleLexer_getChar(src, loc).c \in {"\n", "\r", NUL}
  THEN SimpleLexer_getChar(src, loc).loc
  ELSE skipToEndOfLine(src, SimpleLexer_getChar(src, loc).loc)

toUpperChar(c) ==
  IF InRange(c, "a", "z") THEN Chr(Ord(c) - 32) ELSE c

\* toUpper that leaves the letters as they are
toUpper_AsIs(str) == str

toUpper(str) == [i \in 1..Len(str) |-> toUpperChar(str[i])]

Contains(str, c) == \E i \in 1..Len(str) : str[i] = c

\* postProcess: [token, loc]; token = NoToken for a comment
postProcess(kind, src, lexeme, location, d, loc) ==
  LET Found(table, upperLexeme) ==
        IF upperLexeme \in DOMAIN table
        THEN LET entry == table[upperLexeme]
             IN IF entry.type = "Literal"
                  THEN Token("Literal", lexeme, "None", "Float", location)
                ELSE IF entry.keyword = "Func"
                  THEN Token("Keyword", lexeme, "Func", "None", location)
                ELSE IF entry.keyword # "None"
                  THEN Token("Keyword", lexeme, entry.keyword, "None",
                             location)
                ELSE Token("Identifier", lexeme, "None", "None", location)
        ELSE Token("Identifier", lexeme, "None", "None", location)
      Typed(dfaTokenType) ==
        CASE dfaTokenType = "Identifier" ->
               [loc |-> loc, token |-> Found(symbolTable_, toUpper(lexeme))]
          [] dfaTokenType = "Literal" ->
               LET isFloat == Contains(lexeme, ".") \/ Contains(lexeme, "e")
                                \/ Contains(lexeme, "E")
               IN [loc |-> loc,
                   token |-> Token("Literal", lexeme, "None",
                                   IF isFloat THEN "Float" ELSE "Integer",
                                   location)]
          [] dfaTokenType = "Operator" ->
               [loc |-> loc,
                token |-> Token("Operator", lexeme,
                                getOperatorKeyword(lexeme), "None", location)]
          [] dfaTokenType = "Punctuation" ->
               [loc |-> loc,
                token |-> Token("Punctuation", lexeme,
                                getPunctuationKeyword(lexeme), "None",
                                location)]
          [] dfaTokenType = "Comment" ->
               [loc |-> skipToEndOfLine(src, loc), token |-> NoToken]
          [] OTHER ->
               [loc |-> loc,
                token |-> Token("Invalid", lexeme, "None", "None", location)]
  IN Typed(getAcceptedTokenType(kind, d))

\* nextToken on the scanner state lx = [input, hasMore_, dfa_]: [token, lx]
RECURSIVE SimpleLexer_nextToken(_, _, _)
\* nextToken that records the location after the first character
SimpleLexer_nextToken_NoColumnAdjust(kind, src, lx) ==
  LET Scanner(s, q) ==
        [input |-> q.loc, hasMore_ |-> lx.hasMore_, dfa_ |-> s.dfa]
      Processed(s, q) ==
        IF q.token.type # "NoToken"
        THEN [token |-> q.token, lx |-> Scanner(s, q)]
        ELSE SimpleLexer_nextToken(kind, src, Scanner(s, q))
      Scanned(location, s) ==
        Processed(s, postProcess(kind, src, s.lexeme, location, s.dfa, s.loc))
      Started(p) ==
        IF p.c = NUL
        THEN [token |-> Token("Eof", <<>>, "None", "None", p.loc),
              lx |-> [input |-> p.loc, hasMore_ |-> FALSE, dfa_ |-> lx.dfa_]]
        ELSE Scanned(p.loc, scanMove(kind, src, p.c, p.loc))
  IN Started(preProcess(src, lx.input))

SimpleLexer_nextToken(kind, src, lx) ==
  LET Scanner(s, q) ==
        [input |-> q.loc, hasMore_ |-> lx.hasMore_, dfa_ |-> s.dfa]
      Processed(s, q) ==
        IF q.token.type # "NoToken"
        THEN [token |-> q.token, lx |-> Scanner(s, q)]
        ELSE SimpleLexer_nextToken(kind, src, Scanner(s, q))
      Scanned(location, s) ==
        Processed(s, postProcess(kind, src, s.lexeme, location, s.dfa, s.loc))
      Started(p) ==
        IF p.c = NUL
        THEN [token |-> Token("Eof", <<>>, "None", "None", p.loc),
              lx |-> [input |-> p.loc, hasMore_ |-> FALSE, dfa_ |-> lx.dfa_]]
        ELSE Scanned([p.loc EXCEPT !.column = IF @ > 0 THEN @ - 1 ELSE @],
                     scanMove(kind, src, p.c, p.loc))
  IN Started(preProcess(src, lx.input))

SimpleLexer_hasMoreTokens(src, lx) ==
  lx.hasMore_ /\ ~StringInputSource_eof(src, lx.input)

InitLexer == [input |-> InitLocation, hasMore_ |-> TRUE, dfa_ |-> DFAReset]

\* the first n tokens a fresh scanner of the given encoding returns
RECURSIVE TokenStreamFrom(_, _, _, _)
TokenStreamFrom(kind, src, lx, n) ==
  IF n = 0 THEN <<>>
  ELSE LET r == SimpleLexer_nextToken(kind, src, lx)
       IN <<r.token>> \o TokenStreamFrom(kind, src, r.lx, n - 1)

TokenStream(kind, src, n) == TokenStreamFrom(kind, src, InitLexer, n)


-----------------------------------------------------------------------------
(* Scanner runs: the source is fixed at construction, nextToken is called  *)
(* repeatedly.  tokens records every token nextToken returned; callPos is  *)
(* the offset at which the last call started.                              *)

MaxFrags == 3
MaxEofTokens == 2
MaxBody == 2

RECURSIVE Concat(_)
Concat(ss) == IF ss = <<>> THEN <<>> ELSE Head(ss) \o Concat(Tail(ss))

FragSeqs(F, n) == UNION {[1..k -> F] : k \in 0..n}

LexFrags == {<<"1", ".", "5", "e", "1", "0">>,
             <<"*">>,
             <<"/">>,
             <<"-">>,
             <<"x">>,
             <<" ">>,
             <<"\n">>,
             <<"+">>,
             <<"1">>,
             <<"e">>,
             <<"#">>,
             <<".">>}

LexSources == {Concat(fs) : fs \in FragSeqs(LexFrags, MaxFrags)}

\* comment runs: [prefix] marker body line-break rest
CommentPrefixes == {<<>>, <<"x">>, <<"1", " ">>}
CommentMarkers == {<<"/", "/">>, <<"-", "-">>}
CommentBodyChars == {<<"c">>, <<" ">>, <<"/">>, <<"*">>}
LineBreaks == {<<"\n">>, <<"\r", "\n">>}
CommentRests == {<<>>, <<"y">>, <<" ", "y", "\n", "z">>, <<"/", "/", "c", "\n", "y">>}

CommentSources ==
  {p \o m \o Concat(b) \o nl \o r :
     p \in CommentPrefixes, m \in CommentMarkers,
     b \in FragSeqs(CommentBodyChars, MaxBody), nl \in LineBreaks,
     r \in CommentRests}

\* DrawParserConfig's default member initialisers
DrawParserConfig == [recoverFromErrors |-> TRUE]

ParserIdle ==
  /\ pc = "idle"
  /\ config_ = DrawParserConfig
  /\ currentToken_ = DefaultToken
  /\ lastToken_ = DefaultToken
  /\ astRoot_ = <<>>
  /\ errors_ = <<>>
  /\ iterPos = 0

LexerFresh ==
  /\ dfaType \in DFATypes
  /\ input = InitLocation
  /\ hasMore_ = TRUE
  /\ dfa_ = DFAReset
  /\ tokens = <<>>
  /\ callPos = 0

EofCount(ts) == Cardinality({i \in 1..Len(ts) : ts[i].type = "Eof"})

\* one call of SimpleLexer::nextToken by the scanner's client
NextToken ==
  /\ pc = "idle"
  /\ EofCount(tokens) < MaxEofTokens
  /\ \E r \in {SimpleLexer_nextToken(dfaType, source,
                 [input |-> input, hasMore_ |-> hasMore_, dfa_ |-> dfa_])} :
        /\ input' = r.lx.input
        /\ hasMore_' = r.lx.hasMore_
        /\ dfa_' = r.lx.dfa_
        /\ tokens' = Append(tokens, r.token)
        /\ callPos' = input.position
  /\ UNCHANGED <<source, dfaType, config_, parseVars, errorCount_, errorLog,
                 firstParse, interpreter, semVars>>

NextLex == NextToken



-----------------------------------------------------------------------------
(* Numbers.  A double is modelled exactly where that is possible: a value  *)
(* is (n/d) * u with u one of 1, PI, E.  Whatever leaves that range (an    *)
(* irrational result, NaN, an infinity, a magnitude above MaxMagnitude) is *)
(* the single value Unrep.                                                 *)

MaxMagnitude == 30000

Zero == [n |-> 0, d |-> 1, u |-> "1"]
One == [n |-> 1, d |-> 1, u |-> "1"]
Unrep == [n |-> 0, d |-> 0, u |-> "?"]

IsUnrep(v) == v.u = "?"
IsZero(v) == v.u # "?" /\ v.n = 0

Abs(i) == IF i < 0 THEN -i ELSE i

RECURSIVE GCD(_, _)
GCD(a, b) == IF b = 0 THEN a ELSE GCD(b, a % b)

Norm(n, d, u) ==
  IF n = 0 THEN Zero
  ELSE LET g == GCD(Abs(n), d)
       IN IF Abs(n) \div g > MaxMagnitude \/ d \div g > MaxMagnitude
            THEN Unrep
          ELSE [n |-> (Abs(n) \div g) * (IF n < 0 THEN -1 ELSE 1),
                d |-> d \div g, u |-> u]

IntVal(i) == Norm(i, 1, "1")

RNeg(x) == IF IsUnrep(x) THEN Unrep ELSE [x EXCEPT !.n = -@]

RAdd(x, y) ==
  IF IsUnrep(x) \/ IsUnrep(y) THEN Unrep
  ELSE IF x.n = 0 THEN y
  ELSE IF y.n = 0 THEN x
  ELSE IF x.u # y.u THEN Unrep
  ELSE Norm(x.n * y.d + y.n * x.d, x.d * y.d, x.u)

RSub(x, y) == RAdd(x, RNeg(y))

RMul(x, y) ==
  IF IsUnrep(x) \/ IsUnrep(y) THEN Unrep
  ELSE IF x.n = 0 \/ y.n = 0 THEN Zero
  ELSE IF x.u # "1" /\ y.u # "1" THEN Unrep
  ELSE Norm(x.n * y.n, x.d * y.d, IF x.u = "1" THEN y.u ELSE x.u)

\* l / r for r # 0
RQuot(x, y) ==
  IF IsUnrep(x) \/ IsUnrep(y) THEN Unrep
  ELSE IF x.n = 0 THEN Zero
  ELSE IF y.u # "1" /\ x.u # y.u THEN Unrep
  ELSE Norm(x.n * y.d * (IF y.n < 0 THEN -1 ELSE 1), x.d * Abs(y.n),
            IF y.u = "1" THEN x.u ELSE "1")

RECURSIVE PowAcc(_, _, _)
PowAcc(x, k, acc) ==
  IF k = 0 \/ IsUnrep(acc) THEN acc ELSE PowAcc(x, k - 1, RMul(acc, x))

\* std::pow(l, r)
RPow(x, y) ==
  IF IsZero(y) THEN One
  ELSE IF x = One THEN One
  ELSE IF IsUnrep(x) \/ IsUnrep(y) THEN Unrep
  ELSE IF y.u # "1" \/ y.d # 1 \/ x.u # "1" THEN Unrep
  ELSE IF x.n = 0 THEN (IF y.n > 0 THEN Zero ELSE Unrep)
  ELSE IF x = IntVal(-1) THEN (IF y.n % 2 = 0 THEN One ELSE x)
  ELSE IF y.n > 0 THEN PowAcc(x, y.n, One)
  ELSE RQuot(One, PowAcc(x, -y.n, One))

IsSquare(i) == \E r \in 0..174 : r * r = i
SquareRoot(i) == CHOOSE r \in 0..174 : r * r = i

\* the <cmath> functions makeFuncNode binds, on the values that have an
\* exact result
ApplyFunc(f, v) ==
  IF IsUnrep(v) THEN Unrep
  ELSE CASE f \in {"SIN", "TAN", "ASIN", "ATAN"} ->
              IF IsZero(v) THEN Zero ELSE Unrep
         [] f \in {"COS", "EXP"} -> IF IsZero(v) THEN One ELSE Unrep
         [] f \in {"LN", "ACOS"} -> IF v = One THEN Zero ELSE Unrep
         [] f = "LOG" ->
              IF v = One THEN Zero
              ELSE IF v = IntVal(10) THEN One
              ELSE IF v = IntVal(100) THEN IntVal(2)
              ELSE Unrep
         [] f = "SQRT" ->
              IF v.u = "1" /\ v.n >= 0 /\ IsSquare(v.n) /\ IsSquare(v.d)
              THEN Norm(SquareRoot(v.n), SquareRoot(v.d), "1")
              ELSE Unrep
         [] f = "ABS" -> [v EXCEPT !.n = Abs(@)]
         [] f = "FLOOR" ->
              IF v.u = "1" THEN IntVal(v.n \div v.d) ELSE Unrep
         [] f = "CEIL" ->
              IF v.u = "1" THEN IntVal(-((-v.n) \div v.d)) ELSE Unrep
         [] OTHER -> Unrep

IsDigitChar(c) == InRange(c, "0", "9")

\* the digits of str from index i up to the first non-digit: [v, i, k]
\* with v their value, i the index after them and k their count
RECURSIVE DigitsFrom(_, _)
DigitsFrom(str, st) ==
  IF st.i > Len(str) \/ ~IsDigitChar(str[st.i]) THEN st
  ELSE DigitsFrom(str,
                  [v |-> RAdd(RMul(st.v, IntVal(10)),
                              IntVal(Ord(str[st.i]) - 48)),
                   i |-> st.i + 1, k |-> st.k + 1])

ParseDigits(str, i) == DigitsFrom(str, [v |-> Zero, i |-> i, k |-> 0])

\* std::stod on an unsigned decimal; [ok, v]: ok = FALSE is the
\* std::invalid_argument exception
stod(str) ==
  LET NoDigits(at) == [v |-> Zero, i |-> at, k |-> 0]
      hasE(fp) == fp.i <= Len(str) /\ str[fp.i] \in {"e", "E"}
      sgn(fp) ==
        IF hasE(fp) /\ fp.i + 1 <= Len(str) /\ str[fp.i + 1] \in {"+", "-"}
        THEN 1 ELSE 0
      Scaled(fp, mant, ep) ==
        IF hasE(fp) /\ ep.k > 0
        THEN [ok |-> TRUE,
              v |-> RMul(mant,
                         RPow(IntVal(10),
                              IF sgn(fp) = 1 /\ str[fp.i + 1] = "-"
                              THEN RNeg(ep.v) ELSE ep.v))]
        ELSE [ok |-> TRUE, v |-> mant]
      Mantissa(ip, fp) ==
        IF ip.k + fp.k = 0 THEN [ok |-> FALSE, v |-> Zero]
        ELSE Scaled(fp,
                    RAdd(ip.v, RMul(fp.v, RPow(IntVal(10), IntVal(-fp.k)))),
                    IF hasE(fp) THEN ParseDigits(str, fp.i + 1 + sgn(fp))
                    ELSE NoDigits(fp.i))
      Integer(ip) ==
        Mantissa(ip,
                 IF ip.i <= Len(str) /\ str[ip.i] = "."
                 THEN ParseDigits(str, ip.i + 1)
                 ELSE NoDigits(ip.i))
  IN Integer(ParseDigits(str, 1))

\* the value the callers of std::stod keep: 0.0 when it throws
stodOrZero(str) ==
  LET Caught(r) == IF r.ok THEN r.v ELSE Zero IN Caught(stod(str))


-----------------------------------------------------------------------------
(* AST nodes.  An expression node is [kind, token, children, constValue_,  *)
(* funcPtr_]; a statement node is [kind, token, expressions_,              *)
(* useColorName_, colorName_] with colorName_ a sequence of zero or one    *)
(* node.  A null pointer is the node of kind "Null".                       *)

ExprNode(kind, token, children, constValue, funcPtr) ==
  [kind |-> kind, token |-> token, children |-> children,
   constValue_ |-> constValue, funcPtr_ |-> funcPtr]

NullExpr == ExprNode("Null", DefaultToken, <<>>, Zero, "nullptr")

StatementNode(kind, token) ==
  [kind |-> kind, token |-> token, expressions_ |-> <<>>,
   useColorName_ |-> FALSE, colorName_ |-> <<>>]

NullStmt == StatementNode("Null", DefaultToken)

addExpression(stmt, expr) ==
  [stmt EXCEPT !.expressions_ = Append(@, expr)]

setColorName(stmt, colorName) ==
  [stmt EXCEPT !.colorName_ = <<colorName>>, !.useColorName_ = TRUE]

\* ProgramNode::addStatement with atEnd = false
ProgramNode_addStatement_AtFront(statements, stmt) == <<stmt>> \o statements

ProgramNode_addStatement(statements, stmt) == Append(statements, stmt)

\* Token::literalValue: std::get on the payload throws when a Literal
\* token does not hold the (LiteralType, string) pair
Token_literalValue(t) ==
  IF t.type = "Literal"
  THEN [thrown |-> t.literalType = "None", value |-> t.lexeme]
  ELSE [thrown |-> FALSE, value |-> <<>>]

\* ConstExprNode's constructor: [thrown, node]
ConstExprNode(token, val) ==
  LET Node(constValue) ==
        [thrown |-> FALSE,
         node |-> ExprNode("ConstExpr", token, <<>>, constValue, "nullptr")]
      Parsed(lit) ==
        IF lit.thrown THEN [thrown |-> TRUE, node |-> NullExpr]
        ELSE IF lit.value # <<>> /\ (IsDigitChar(lit.value[1])
                                     \/ lit.value[1] \in {"-", "."})
          THEN Node(stodOrZero(lit.value))
        ELSE Node(val)
  IN IF IsZero(val) /\ token.type = "Literal"
     THEN Parsed(Token_literalValue(token))
     ELSE Node(val)

\* a ParamExprNode that reads the analyzer's cell whatever the parser
\* pointed to when it was built
ParamExprNode_AnalyzerCell(token, storage) ==
  [kind |-> "ParamExpr", token |-> token, children |-> <<>>,
   constValue_ |-> Zero, funcPtr_ |-> "nullptr", storage_ |-> "tStorage_"]

\* storage is the cell the node reads: "defaultTValue_", the parser's own,
\* or "tStorage_", the analyzer's
ParamExprNode(token, storage) ==
  [kind |-> "ParamExpr", token |-> token, children |-> <<>>,
   constValue_ |-> Zero, funcPtr_ |-> "nullptr", storage_ |-> storage]

ColorNameExprNode(token) ==
  ExprNode("ColorNameExpr", token, <<>>, Zero, "nullptr")

UnaryExprNode(op, operand) ==
  ExprNode("UnaryExpr", op, <<operand>>, Zero, "nullptr")

BinaryExprNode(op, left, right) ==
  ExprNode("BinaryExpr", op, <<left, right>>, Zero, "nullptr")

FuncCallExprNode(funcToken, argument, funcPtr) ==
  ExprNode("FuncCallExpr", funcToken, <<argument>>, Zero, funcPtr)

PIValue == [n |-> 1, d |-> 1, u |-> "PI"]
EValue == [n |-> 1, d |-> 1, u |-> "E"]
XDValue == IntVal(10701)
WXQValue == Norm(528, 100, "1")

\* the Div case with the quotient of IEEE arithmetic for r = 0, an
\* infinity or a NaN
BinaryExprNode_value_DivIEEE(l, r) ==
  IF ~IsZero(r) THEN RQuot(l, r) ELSE Unrep

\* the Div case of BinaryExprNode::value: (r != 0.0) ? l / r : 0.0
BinaryExprNode_value_Div(l, r) ==
  IF ~IsZero(r) THEN RQuot(l, r) ELSE Zero

\* the parser's own T cell, which nothing writes
defaultTValue_ == Zero

\* value() of an expression node, with t the content of the analyzer's T
\* cell
RECURSIVE value(_, _)
value(node, t) ==
  CASE node.kind = "BinaryExpr" ->
         LET l == IF node.children[1].kind # "Null"
                  THEN value(node.children[1], t) ELSE Zero
             r == IF node.children[2].kind # "Null"
                  THEN value(node.children[2], t) ELSE Zero
             op == node.token.keyword
         IN CASE op = "Plus" -> RAdd(l, r)
              [] op = "Minus" -> RSub(l, r)
              [] op = "Mul" -> RMul(l, r)
              [] op = "Div" -> BinaryExprNode_value_Div(l, r)
              [] op = "Power" -> RPow(l, r)
              [] OTHER -> Zero
    [] node.kind = "UnaryExpr" ->
         LET v == IF node.children[1].kind # "Null"
                  THEN value(node.children[1], t) ELSE Zero
         IN IF node.token.keyword = "Minus" THEN RNeg(v) ELSE v
    [] node.kind = "FuncCallExpr" ->
         IF node.funcPtr_ # "nullptr" /\ node.children[1].kind # "Null"
         THEN ApplyFunc(node.funcPtr_, value(node.children[1], t))
         ELSE Zero
    [] node.kind = "ConstExpr" -> node.constValue_
    [] node.kind = "ParamExpr" ->
         IF node.storage_ = "tStorage_" THEN t ELSE defaultTValue_
    [] OTHER -> Zero

\* DrawASTNode::childValue on a statement node
childValue(stmt, index, t) ==
  IF index + 1 <= Len(stmt.expressions_)
  THEN value(stmt.expressions_[index + 1], t) ELSE Zero


-----------------------------------------------------------------------------
(* DrawLangParser.  The recursive-descent routines are operators on the    *)
(* parser state P = [kind, src, recover, lx, toks, cur, last, errs,        *)
(* thrown, tStorage_]: the scanner it owns (encoding, text, cursor), the   *)
(* tokens the scanner has returned so far, currentToken_, lastToken_,      *)
(* errors_, whether an exception is propagating, and the cell tStorage_    *)
(* points to.  Once thrown is set every routine is skipped, as unwinding   *)
(* skips the rest of each caller.                                          *)

DrawParseError(message, lexeme, t) ==
  [message |-> message, lexeme |-> lexeme, line |-> t.line,
   column |-> t.column, position |-> t.position]

addError(P, message, lexeme) ==
  [P EXCEPT !.errs = Append(@, DrawParseError(message, lexeme, P.cur))]

syntaxError(P, errorCase) ==
  CASE errorCase = 1 ->
         addError(P, "Lexical error: invalid character/text", <<>>)
    [] errorCase = 2 ->
         addError(P, "Syntax error: unexpected token", P.cur.lexeme)
    [] OTHER -> addError(P, "Unknown error", <<>>)

\* a call of the parser routine of that name; the routines are mutually
\* recursive and enter one another through it
RECURSIVE Call(_, _, _)

\* fetchToken that hands an Invalid token to its caller
fetchToken_KeepInvalid(P) ==
  LET Got(r, P1) ==
        IF r.token.type = "Comment" THEN Call("fetchToken", P1, "None")
        ELSE P1
      Scanned(r) ==
        Got(r, [P EXCEPT !.lx = r.lx, !.toks = Append(@, r.token),
                         !.cur = r.token])
  IN IF P.thrown THEN P
     ELSE Scanned(SimpleLexer_nextToken(P.kind, P.src, P.lx))

fetchToken(P) ==
  LET Got(r, P1) ==
        IF r.token.type = "Comment" THEN Call("fetchToken", P1, "None")
        ELSE IF r.token.type = "Invalid"
          THEN Call("fetchToken", syntaxError(P1, 1), "None")
        ELSE P1
      Scanned(r) ==
        Got(r, [P EXCEPT !.lx = r.lx, !.toks = Append(@, r.token),
                         !.cur = r.token])
  IN IF P.thrown THEN P
     ELSE Scanned(SimpleLexer_nextToken(P.kind, P.src, P.lx))

\* Token::keyword
Token_keyword(t) ==
  IF t.type \in {"Keyword", "Operator", "Punctuation"} THEN t.keyword
  ELSE "None"

checkToken(P, type) ==
  IF P.cur.type \in {"Keyword", "Operator", "Punctuation"}
  THEN Token_keyword(P.cur) = type
  ELSE FALSE

\* the discard loop of matchToken
RECURSIVE matchRecover(_, _)

\* a discard loop that gives up at the ';' that ends the statement
matchRecover_StopAtSemico(P, expected) ==
  LET Skipped(P1) ==
        IF checkToken(P1, expected)
        THEN Call("fetchToken", [P1 EXCEPT !.last = P1.cur], "None")
        ELSE IF P1.cur.type = "Eof" \/ checkToken(P1, "Semico") THEN P1
        ELSE matchRecover(P1, expected)
  IN Skipped(Call("fetchToken", syntaxError(P, 2), "None"))

matchRecover(P, expected) ==
  LET Skipped(P1) ==
        IF checkToken(P1, expected)
        THEN Call("fetchToken", [P1 EXCEPT !.last = P1.cur], "None")
        ELSE IF P1.cur.type = "Eof" THEN P1
        ELSE matchRecover(P1, expected)
  IN Skipped(Call("fetchToken", syntaxError(P, 2), "None"))

matchToken(P, expected) ==
  LET Matched(P1) ==
        IF checkToken(P1, expected) THEN Call("fetchToken", P1, "None")
        ELSE IF P1.recover THEN matchRecover(P1, expected)
        ELSE syntaxError(P1, 2)
  IN IF P.thrown THEN P
     ELSE Matched([P EXCEPT !.last = P.cur])

makeExprNode(P, token) ==
  LET Literal(lit, upper) ==
        IF lit.thrown THEN [thrown |-> TRUE, node |-> NullExpr]
        ELSE ConstExprNode(token,
                           CASE upper = <<"P", "I">> -> PIValue
                             [] upper = <<"E">> -> EValue
                             [] upper = <<"X", "D">> -> XDValue
                             [] upper = <<"W", "X", "Q">> -> WXQValue
                             [] OTHER -> stodOrZero(lit.value))
      Identifier(upper) ==
        ConstExprNode(token,
                      CASE upper = <<"P", "I">> -> PIValue
                        [] upper = <<"E">> -> EValue
                        [] OTHER -> Zero)
  IN IF token.type = "Literal"
     THEN Literal(Token_literalValue(token), toUpper(token.lexeme))
     ELSE IF token.type = "Keyword" /\ Token_keyword(token) = "T"
       THEN [thrown |-> FALSE, node |-> ParamExprNode(token, P.tStorage_)]
     ELSE IF token.type = "Identifier"
       THEN Identifier(toUpper(token.lexeme))
     ELSE ConstExprNode(token, Zero)

FuncName(upper) ==
  CASE upper = <<"S", "I", "N">> -> "SIN"
    [] upper = <<"C", "O", "S">> -> "COS"
    [] upper = <<"T", "A", "N">> -> "TAN"
    [] upper = <<"L", "N">> -> "LN"
    [] upper = <<"E", "X", "P">> -> "EXP"
    [] upper = <<"S", "Q", "R", "T">> -> "SQRT"
    [] upper = <<"A", "B", "S">> -> "ABS"
    [] upper = <<"A", "S", "I", "N">> -> "ASIN"
    [] upper = <<"A", "C", "O", "S">> -> "ACOS"
    [] upper = <<"A", "T", "A", "N">> -> "ATAN"
    [] upper = <<"L", "O", "G">> -> "LOG"
    [] upper = <<"C", "E", "I", "L">> -> "CEIL"
    [] upper = <<"F", "L", "O", "O", "R">> -> "FLOOR"
    [] OTHER -> "nullptr"

\* makeFuncNode comparing the spelling of the name as written
makeFuncNode_AsWritten(funcToken, arg) ==
  FuncCallExprNode(funcToken, arg, FuncName(funcToken.lexeme))

makeFuncNode(funcToken, arg) ==
  FuncCallExprNode(funcToken, arg, FuncName(toUpper(funcToken.lexeme)))

\* [p, node] with the exception flag of a node constructor folded into p
Built(P, made) ==
  [p |-> [P EXCEPT !.thrown = @ \/ made.thrown], node |-> made.node]

RECURSIVE expressionLoop(_, _)
RECURSIVE termLoop(_, _)

expression(P) ==
  LET Rest(left) == expressionLoop(left.p, left.node)
  IN IF P.thrown THEN [p |-> P, node |-> NullExpr]
     ELSE Rest(Call("term", P, "None"))

expressionLoop(P, left) ==
  LET Next(right) ==
        expressionLoop(right.p, BinaryExprNode(P.cur, left, right.node))
  IN IF P.thrown THEN [p |-> P, node |-> left]
     ELSE IF checkToken(P, "Plus") \/ checkToken(P, "Minus")
       THEN Next(Call("term",
                      Call("matchToken", P, Token_keyword(P.cur)), "None"))
     ELSE [p |-> P, node |-> left]

\* term without its MUL/DIV loop
term_FactorOnly(P) == Call("factor", P, "None")

term(P) ==
  LET Rest(left) == termLoop(left.p, left.node)
  IN IF P.thrown THEN [p |-> P, node |-> NullExpr]
     ELSE Rest(Call("factor", P, "None"))

termLoop(P, left) ==
  LET Next(right) ==
        termLoop(right.p, BinaryExprNode(P.cur, left, right.node))
  IN IF P.thrown THEN [p |-> P, node |-> left]
     ELSE IF checkToken(P, "Mul") \/ checkToken(P, "Div")
       THEN Next(Call("factor",
                      Call("matchToken", P, Token_keyword(P.cur)), "None"))
     ELSE [p |-> P, node |-> left]

factor(P) ==
  LET Signed(operand) ==
        [p |-> operand.p, node |-> UnaryExprNode(P.cur, operand.node)]
  IN IF P.thrown THEN [p |-> P, node |-> NullExpr]
     ELSE IF checkToken(P, "Plus")
       THEN Signed(Call("factor", Call("matchToken", P, "Plus"), "None"))
     ELSE IF checkToken(P, "Minus")
       THEN Signed(Call("factor", Call("matchToken", P, "Minus"), "None"))
     ELSE Call("component", P, "None")

\* component without its POWER part
component_NoPower(P) == Call("atom", P, "None")

component(P) ==
  LET Raised(left, right) ==
        [p |-> right.p,
         node |-> BinaryExprNode(left.p.cur, left.node, right.node)]
      Power(left) ==
        IF left.p.thrown THEN left
        ELSE IF checkToken(left.p, "Power")
          THEN Raised(left,
                      Call("component",
                           Call("matchToken", left.p, "Power"), "None"))
        ELSE left
  IN IF P.thrown THEN [p |-> P, node |-> NullExpr]
     ELSE Power(Call("atom", P, "None"))

atom(P) ==
  LET Literal(made) ==
        IF made.thrown THEN Built(P, made)
        ELSE [p |-> Call("fetchToken", P, "None"), node |-> made.node]
      FuncCall(arg) ==
        [p |-> Call("matchToken", arg.p, "R_bracket"),
         node |-> makeFuncNode(P.cur, arg.node)]
      Grouped(root) ==
        [p |-> Call("matchToken", root.p, "R_bracket"), node |-> root.node]
      Identifier(P1) ==
        IF checkToken(P1, "L_bracket")
        THEN FuncCall(Call("expression",
                           Call("matchToken", P1, "L_bracket"), "None"))
        ELSE Built(P1, makeExprNode(P, P.cur))
      zeroToken == [DefaultToken EXCEPT !.type = "Literal",
                                       !.lexeme = <<"0">>]
  IN IF P.thrown THEN [p |-> P, node |-> NullExpr]
     ELSE IF P.cur.type = "Literal" THEN Literal(makeExprNode(P, P.cur))
     ELSE IF checkToken(P, "T")
       THEN [p |-> Call("fetchToken", P, "None"),
             node |-> ParamExprNode(P.cur, P.tStorage_)]
     ELSE IF checkToken(P, "Func")
       THEN FuncCall(Call("expression",
                          Call("matchToken", Call("fetchToken", P, "None"),
                               "L_bracket"),
                          "None"))
     ELSE IF checkToken(P, "L_bracket")
       THEN Grouped(Call("expression",
                         Call("matchToken", P, "L_bracket"), "None"))
     ELSE IF P.cur.type = "Identifier"
       THEN Identifier(Call("fetchToken", P, "None"))
     ELSE Built(syntaxError(P, 2), ConstExprNode(zeroToken, Zero))

\* The statement routines thread S = [p, node]: the parser state and the
\* statement node under construction.

\* matchToken(expected); auto root = std::make_unique<...>(lastToken_)
rootAfterMatch(P, expected, kind) ==
  LET Root(P1) == [p |-> P1, node |-> StatementNode(kind, P1.last)]
  IN Root(Call("matchToken", P, expected))

\* matchToken(expected)
thenMatch(S, expected) ==
  [S EXCEPT !.p = Call("matchToken", @, expected)]

\* a statement routine that leaves out its expressions once an error has
\* been recorded
thenExpression_UnlessError(S) ==
  LET Added(e) == [p |-> e.p, node |-> addExpression(S.node, e.node)]
  IN IF S.p.thrown \/ S.p.errs # <<>> THEN S
     ELSE Added(Call("expression", S.p, "None"))

\* auto e = expression(); root->addExpression(std::move(e))
thenExpression(S) ==
  LET Added(e) == [p |-> e.p, node |-> addExpression(S.node, e.node)]
  IN IF S.p.thrown THEN S
     ELSE Added(Call("expression", S.p, "None"))

originStatement(P) ==
  LET root == rootAfterMatch(P, "Origin", "OriginStmt")
      assign == thenMatch(root, "Assign")
      open == thenMatch(assign, "L_bracket")
      xExpr == thenExpression(open)
      comma == thenMatch(xExpr, "Comma")
      yExpr == thenExpression(comma)
  IN thenMatch(yExpr, "R_bracket")

scaleStatement(P) ==
  LET root == rootAfterMatch(P, "Scale", "ScaleStmt")
      assign == thenMatch(root, "Assign")
      open == thenMatch(assign, "L_bracket")
      sxExpr == thenExpression(open)
      comma == thenMatch(sxExpr, "Comma")
      syExpr == thenExpression(comma)
  IN thenMatch(syExpr, "R_bracket")

rotStatement(P) ==
  LET root == rootAfterMatch(P, "Rot", "RotStmt")
      assign == thenMatch(root, "Assign")
  IN thenExpression(assign)

forStatement(P) ==
  LET root == rootAfterMatch(P, "For", "ForDrawStmt")
      param == thenMatch(root, "T")
      from == thenMatch(param, "From")
      startExpr == thenExpression(from)
      to == thenMatch(startExpr, "To")
      endExpr == thenExpression(to)
      step == thenMatch(endExpr, "Step")
      stepExpr == thenExpression(step)
      draw == thenMatch(stepExpr, "Draw")
      open == thenMatch(draw, "L_bracket")
      xExpr == thenExpression(open)
      comma == thenMatch(xExpr, "Comma")
      yExpr == thenExpression(comma)
  IN thenMatch(yExpr, "R_bracket")

colorStatement(P) ==
  LET RGB(S) ==
        LET open == thenMatch(S, "L_bracket")
            rExpr == thenExpression(open)
            comma1 == thenMatch(rExpr, "Comma")
            gExpr == thenExpression(comma1)
            comma2 == thenMatch(gExpr, "Comma")
            bExpr == thenExpression(comma2)
        IN thenMatch(bExpr, "R_bracket")
      Name(S) ==
        [p |-> Call("fetchToken", S.p, "None"),
         node |-> setColorName(S.node, ColorNameExprNode(S.p.cur))]
      Mode(S) == IF checkToken(S.p, "L_bracket") THEN RGB(S) ELSE Name(S)
  IN Mode(thenMatch(rootAfterMatch(P, "Color", "ColorStmt"), "Assign"))

sizeStatement(P) ==
  LET Pair(S) ==
        LET open == thenMatch(S, "L_bracket")
            wExpr == thenExpression(open)
            comma == thenMatch(wExpr, "Comma")
            hExpr == thenExpression(comma)
        IN thenMatch(hExpr, "R_bracket")
      Mode(S) ==
        IF checkToken(S.p, "L_bracket") THEN Pair(S) ELSE thenExpression(S)
  IN Mode(thenMatch([p |-> Call("fetchToken", P, "None"),
                     node |-> StatementNode("SizeStmt", P.cur)],
                    "Assign"))

statement(P) ==
  IF P.cur.type = "Keyword"
  THEN LET kw == Token_keyword(P.cur)
       IN CASE kw = "Origin" -> originStatement(P)
            [] kw = "Scale" -> scaleStatement(P)
            [] kw = "Rot" -> rotStatement(P)
            [] kw = "For" -> forStatement(P)
            [] kw = "Color" -> colorStatement(P)
            [] kw = "Size" -> sizeStatement(P)
            [] OTHER ->
                 IF toUpper(P.cur.lexeme) \in {SizeName} \cup SizeAliases
                 THEN sizeStatement(P)
                 ELSE [p |-> P, node |-> NullStmt]
  ELSE [p |-> P, node |-> NullStmt]

\* the body of program's loop that keeps a statement ending at end of input
programIter_KeepUnfinished(P, statements) ==
  LET Parsed(stmt) ==
        [p |-> Call("matchToken", stmt.p, "Semico"),
         statements |->
           IF stmt.p.thrown \/ stmt.node.kind = "Null" THEN statements
           ELSE ProgramNode_addStatement(statements, stmt.node)]
  IN Parsed(statement(P))

\* one pass through the body of program's loop: [p, statements]
programIter(P, statements) ==
  LET Parsed(stmt) ==
        [p |-> Call("matchToken", stmt.p, "Semico"),
         statements |->
           IF stmt.p.thrown \/ stmt.node.kind = "Null" THEN statements
           ELSE IF stmt.p.cur.type = "Eof" THEN statements
           ELSE ProgramNode_addStatement(statements, stmt.node)]
  IN Parsed(statement(P))

Call(name, P, arg) ==
  CASE name = "fetchToken" -> fetchToken(P)
    [] name = "matchToken" -> matchToken(P, arg)
    [] name = "expression" -> expression(P)
    [] name = "term" -> term(P)
    [] name = "factor" -> factor(P)
    [] name = "component" -> component(P)
    [] name = "atom" -> atom(P)
    [] name = "programIter" -> programIter(P, arg)


-----------------------------------------------------------------------------
(* Programs given to parse()                                               *)

MaxStmts == 3
MaxChunks == 2
MaxErrors == 4
MaxOperand == 4

\* statements that follow the grammar, each with its terminating ';'
WellFormed ==
  << [text |-> <<"O", "R", "I", "G", "I", "N", " ", "I", "S", " ", "(",
               "1", "0", "0", ",", " ", "2", "0", "0", ")", ";", "\n">>,
      kind |-> "OriginStmt"],
     [text |-> <<"s", "c", "a", "l", "e", " ", "i", "s", " ", "(", "2",
               ",", " ", "0", ".", "5", ")", ";", "\n">>,
      kind |-> "ScaleStmt"],
     [text |-> <<"R", "O", "T", " ", "I", "S", " ", "P", "I", "/", "2",
               ";", "\n">>,
      kind |-> "RotStmt"],
     [text |-> <<"F", "O", "R", " ", "T", " ", "F", "R", "O", "M", " ",
               "0", " ", "T", "O", " ", "2", " ", "S", "T", "E", "P", " ",
               "1", " ", "D", "R", "A", "W", " ", "(", "T", ",", " ", "-",
               "T", ")", ";", "\n">>,
      kind |-> "ForDrawStmt"],
     [text |-> <<"C", "O", "L", "O", "R", " ", "I", "S", " ", "(", "2",
               "5", "5", ",", " ", "0", ",", " ", "0", ")", ";", "\n">>,
      kind |-> "ColorStmt"],
     [text |-> <<"c", "o", "l", "o", "r", " ", "i", "s", " ", "r", "e",
               "d", ";", " ">>,
      kind |-> "ColorStmt"],
     [text |-> <<"S", "I", "Z", "E", " ", "I", "S", " ", "3", ";", "\n">>,
      kind |-> "SizeStmt"],
     [text |-> <<"p", "i", "x", " ", "i", "s", " ", "(", "2", ",", " ",
               "4", ")", ";">>,
      kind |-> "SizeStmt"] >>

\* "ORIGIN IS (100, 200)": a complete statement without its ';'
Unterminated ==
  <<"O", "R", "I", "G", "I", "N", " ", "I", "S", " ", "(", "1", "0", "0",
  ",", " ", "2", "0", "0", ")">>

Malformed ==
  {<<"R", "O", "T", " ", "I", "S", " ", ";">>,
   <<"x", " ">>,
   <<";">>,
   <<"R", "O", "T", " ", "1", ";">>,
   <<"#">>,
   <<"O", "R", "I", "G", "I", "N", " ", "I", "S", " ", "(", "1", " ", "2", ")", ";">>}

StmtSeqs == FragSeqs(1..Len(WellFormed), MaxStmts)

ProgramText(is) == Concat([k \in 1..Len(is) |-> WellFormed[is[k]].text])

\* pieces put together in any order: two statements, the unterminated
\* statement and the malformed texts
Chunks ==
  {WellFormed[1].text, WellFormed[6].text} \cup {Unterminated}
    \cup Malformed

ParseSources ==
  {ProgramText(is) : is \in StmtSeqs}
    \cup {Concat(cs) : cs \in FragSeqs(Chunks, MaxChunks)}


\* statements spelling their keywords in several cases: pre atom post
KwHeads ==
  {[pre |-> <<"o", "r", "i", "g", "i", "n", " ", "i", "s", " ", "(">>,
    post |-> <<",", " ", "1", ")", ";">>],
   [pre |-> <<"O", "r", "i", "g", "i", "n", " ", "I", "S", " ", "(">>,
    post |-> <<",", " ", "1", ")", ";">>],
   [pre |-> <<"O", "R", "I", "G", "I", "N", " ", "I", "s", " ", "(">>,
    post |-> <<",", " ", "1", ")", ";">>],
   [pre |-> <<"S", "I", "Z", "E", " ", "i", "s", " ">>,
    post |-> <<";">>],
   [pre |-> <<"s", "i", "z", "e", " ", "i", "s", " ">>,
    post |-> <<";">>],
   [pre |-> <<"S", "i", "z", "e", " ", "i", "s", " ">>,
    post |-> <<";">>],
   [pre |-> <<"P", "I", "X", " ", "i", "s", " ">>,
    post |-> <<";">>],
   [pre |-> <<"p", "i", "x", " ", "i", "s", " ">>,
    post |-> <<";">>],
   [pre |-> <<"P", "I", "X", "S", "I", "Z", "E", " ", "i", "s", " ">>,
    post |-> <<";">>],
   [pre |-> <<"P", "i", "x", "S", "i", "z", "e", " ", "i", "s", " ">>,
    post |-> <<";">>],
   [pre |-> <<"P", "I", "X", "E", "L", "S", "I", "Z", "E", " ", "i", "s",
            " ">>,
    post |-> <<";">>],
   [pre |-> <<"p", "i", "x", "e", "l", "s", "i", "z", "e", " ", "i", "s",
            " ">>,
    post |-> <<";">>]}

KwAtoms ==
  {<<"s", "i", "n", "(", "0", ")">>,
   <<"S", "i", "n", "(", "0", ")">>,
   <<"S", "I", "N", "(", "0", ")">>,
   <<"5">>}

KwStmts == {h.pre \o a \o h.post : h \in KwHeads, a \in KwAtoms}

KwSources == {s1 \o <<" ">> \o s2 : s1 \in KwStmts, s2 \in KwStmts}

\* "ROT IS e;" for e = a op b op c and e = -a**b over one-digit operands
Digit(i) == Chr(48 + i)

ExprOps == {<<"+">>, <<"-">>, <<"*">>, <<"/">>, <<"*", "*">>}

Exprs ==
  {<<Digit(a)>> \o op1 \o <<Digit(b)>> \o op2 \o <<Digit(c)>> :
     a \in 0..MaxOperand, b \in 0..MaxOperand, c \in 0..MaxOperand,
     op1 \in ExprOps, op2 \in ExprOps}
    \cup {<<"-", Digit(a), "*", "*", Digit(b)>> :
            a \in 0..MaxOperand, b \in 0..MaxOperand}

ExprSources == {<<"R", "O", "T", " ", "I", "S", " ">> \o e \o <<";">> : e \in Exprs}

-----------------------------------------------------------------------------
(* Programs given to the analyzer                                          *)

MaxPrefix == 2

\* FOR-DRAW statements: ascending, descending, zero step, mismatched
Loops ==
  {<<"F", "O", "R", " ", "T", " ", "F", "R", "O", "M", " ", "0", " ", "T",
     "O", " ", "5", " ", "S", "T", "E", "P", " ", "1", " ", "D", "R", "A",
     "W", "(", "T", ",", " ", "T", ")", ";", "\n">>,
   <<"F", "O", "R", " ", "T", " ", "F", "R", "O", "M", " ", "0", " ", "T",
     "O", " ", "1", " ", "S", "T", "E", "P", " ", "0", ".", "5", " ", "D",
     "R", "A", "W", "(", "T", ",", " ", "T", "*", "2", ")", ";", "\n">>,
   <<"f", "o", "r", " ", "t", " ", "f", "r", "o", "m", " ", "2", " ", "t",
     "o", " ", "0", " ", "s", "t", "e", "p", " ", "-", "1", " ", "d", "r",
     "a", "w", "(", "t", ",", " ", "0", ")", ";", "\n">>,
   <<"F", "O", "R", " ", "T", " ", "F", "R", "O", "M", " ", "0", " ", "T",
     "O", " ", "2", " ", "S", "T", "E", "P", " ", "0", " ", "D", "R", "A",
     "W", "(", "T", ",", " ", "T", ")", ";", "\n">>,
   <<"F", "O", "R", " ", "T", " ", "F", "R", "O", "M", " ", "2", " ", "T",
     "O", " ", "0", " ", "S", "T", "E", "P", " ", "1", " ", "D", "R", "A",
     "W", "(", "T", ",", " ", "T", ")", ";", "\n">>,
   <<"F", "O", "R", " ", "T", " ", "F", "R", "O", "M", " ", "0", " ", "T",
     "O", " ", "2", " ", "S", "T", "E", "P", " ", "-", "1", " ", "D", "R",
     "A", "W", "(", "T", ",", " ", "T", ")", ";", "\n">>,
   <<"F", "O", "R", " ", "T", " ", "F", "R", "O", "M", " ", "1", " ", "T",
     "O", " ", "1", " ", "S", "T", "E", "P", " ", "-", "1", " ", "D", "R",
     "A", "W", "(", "T", ",", " ", "T", ")", ";", "\n">>,
   <<"F", "O", "R", " ", "T", " ", "F", "R", "O", "M", " ", "3", " ", "T",
     "O", " ", "3", " ", "S", "T", "E", "P", " ", "2", " ", "D", "R", "A",
     "W", "(", "T", ",", " ", "1", ")", ";", "\n">>}

\* what stands between two loops; the last one sets the values a new
\* analyzer has
Middles ==
  {<<>>,
   <<"C", "O", "L", "O", "R", " ", "I", "S", " ", "B", "L", "U", "E", ";",
     "\n">>,
   <<"S", "I", "Z", "E", " ", "I", "S", " ", "2", ";", "\n">>,
   <<"c", "o", "l", "o", "r", " ", "i", "s", " ", "g", "r", "e", "e", "n",
     ";", " ", "s", "i", "z", "e", " ", "i", "s", " ", "3", ";", "\n">>,
   <<"O", "R", "I", "G", "I", "N", " ", "I", "S", " ", "(", "0", ",", " ",
     "0", ")", ";", " ", "S", "C", "A", "L", "E", " ", "I", "S", " ", "(",
     "1", ",", " ", "1", ")", ";", " ", "R", "O", "T", " ", "I", "S", " ",
     "0", ";", "\n">>}

\* one loop, or two loops with colour and size statements between them
LoopSources ==
  Loops \cup {l1 \o m \o l2 : l1 \in Loops, m \in Middles, l2 \in Loops}

\* statements that set one attribute of the analyzer
Settings ==
  {<<"O", "R", "I", "G", "I", "N", " ", "I", "S", " ", "(", "1", "0", "0",
     ",", " ", "1", "0", "0", ")", ";", "\n">>,
   <<"S", "C", "A", "L", "E", " ", "I", "S", " ", "(", "1", "0", ",", " ",
     "1", "0", ")", ";", "\n">>,
   <<"S", "C", "A", "L", "E", " ", "I", "S", " ", "(", "2", ",", " ", "0",
     ".", "5", ")", ";", "\n">>,
   <<"R", "O", "T", " ", "I", "S", " ", "P", "I", "/", "2", ";", "\n">>,
   <<"C", "O", "L", "O", "R", " ", "I", "S", " ", "R", "e", "d", ";", "\n">>,
   <<"c", "o", "l", "o", "r", " ", "i", "s", " ", "g", "r", "e", "e", "n",
     ";", "\n">>,
   <<"C", "O", "L", "O", "R", " ", "I", "S", " ", "B", "L", "U", "E", ";",
     "\n">>,
   <<"C", "O", "L", "O", "R", " ", "I", "S", " ", "n", "o", "s", "u", "c",
     "h", ";", "\n">>,
   <<"C", "O", "L", "O", "R", " ", "I", "S", " ", "(", "0", ",", " ", "3",
     "0", "0", ",", " ", "1", "2", ".", "5", ")", ";", "\n">>,
   <<"S", "I", "Z", "E", " ", "I", "S", " ", "2", ";", "\n">>,
   <<"S", "I", "Z", "E", " ", "I", "S", " ", "1", ";", "\n">>,
   <<"S", "I", "Z", "E", " ", "I", "S", " ", "0", ".", "5", ";", "\n">>,
   <<"S", "I", "Z", "E", " ", "I", "S", " ", "0", ";", "\n">>}

\* "FOR T FROM 0 TO 1 STEP 1 DRAW(1, T);": the raw points (1, 0) and (1, 1)
TwoPoints ==
  <<"F", "O", "R", " ", "T", " ", "F", "R", "O", "M", " ", "0", " ", "T",
    "O", " ", "1", " ", "S", "T", "E", "P", " ", "1", " ", "D", "R", "A",
    "W", "(", "1", ",", " ", "T", ")", ";", "\n">>

\* up to MaxPrefix settings, then the loop that draws two points
DrawSources ==
  {Concat(ss) \o TwoPoints : ss \in FragSeqs(Settings, MaxPrefix)}

\* texts parsed twice
TwiceSources ==
  {Concat(cs) :
     cs \in FragSeqs(Chunks \cup {WellFormed[3].text, WellFormed[4].text},
                      MaxChunks)}

-----------------------------------------------------------------------------
(* The analyzer as constructed, and the process-wide ErrorLog.  A double   *)
(* member is a value of the number model; attr_ is the PixelAttribute      *)
(* [r, g, b, size] with r, g, b the unsigned chars as integers.  parser_   *)
(* is "nullptr" or "parser"; the parser's T cell pointer is the analyzer's *)
(* tStorage_ exactly when an analyzer was given the parser, and a          *)
(* ParamExprNode keeps the cell the parser pointed to when it was built.   *)

\* the conversion without std::clamp: the integer part modulo 256
ToUnsignedChar_Unclamped(c) == (c.n \div c.d) % 256

\* static_cast<unsigned char>(std::clamp(c, 0.0, 255.0)) on a rational c
ToUnsignedChar(c) ==
  IF c.n < 0 THEN 0
  ELSE IF c.n > 255 * c.d THEN 255
  ELSE c.n \div c.d

\* the values a channel argument converts like: a number the model
\* represents converts as itself; the conversion of a NaN to unsigned char
\* is undefined and gives any unsigned char, and so does, for the model, a
\* number it does not represent
ChannelArguments(c) ==
  IF c.u = "1" \/ (~IsUnrep(c) /\ c.n = 0) THEN {c}
  ELSE {[n |-> k, d |-> 1, u |-> "1"] : k \in 0..255}

\* setColor that also puts the size back to 1
PixelAttribute_setColor_ResetSize(attr, red, green, blue) ==
  [r |-> ToUnsignedChar(red), g |-> ToUnsignedChar(green),
   b |-> ToUnsignedChar(blue), size |-> One]

PixelAttribute_setColor(attr, red, green, blue) ==
  [attr EXCEPT !.r = ToUnsignedChar(red), !.g = ToUnsignedChar(green),
               !.b = ToUnsignedChar(blue)]

PixelAttribute_setSize(attr, s) ==
  [attr EXCEPT !.size = IF s.n > 0 THEN s ELSE One]

\* PixelAttribute's default member initialisers
PixelAttribute == [r |-> 255, g |-> 0, b |-> 0, size |-> One]

\* ColorStmtNode::getDefaultColor
getDefaultColor == [r |-> IntVal(255), g |-> Zero, b |-> Zero]

\* DrawLangSemanticAnalyzer's constructor called with parser
\* the DrawLangInterpreter's error list, cleared when executeFromString is
\* entered, and what executeFromString has returned
DrawLangInterpreter == [errors_ |-> <<>>, returned |-> "nothing"]

\* the lists and the warning count of the ErrorLog singleton, whose
\* errorCount_ is the variable errorCount_
ErrorLog == [errors_ |-> <<>>, warnings_ |-> <<>>, warningCount_ |-> 0]

AnalyzerFresh(parser) ==
  /\ parser_ = parser
  /\ originX_ = Zero
  /\ originY_ = Zero
  /\ scaleX_ = One
  /\ scaleY_ = One
  /\ rotAngle_ = Zero
  /\ tStorage_ = Zero
  /\ attr_ = PixelAttribute_setColor(PixelAttribute, getDefaultColor.r,
                                     getDefaultColor.g, getDefaultColor.b)
  /\ drawnPixels_ = <<>>
  /\ stmtIndex = 0
  /\ loopEndVal = Zero
  /\ loopStepVal = Zero
  /\ pointCount = 0
  /\ errorCount_ = 0
  /\ errorLog = ErrorLog
  /\ firstParse = <<>>
  /\ interpreter = DrawLangInterpreter

-----------------------------------------------------------------------------
(* Parser runs: a parser is constructed on a fresh scanner over the source *)
(* and parse() is called once.  pc is parse()'s position: "idle" before    *)
(* the call, "program" at the test of program's loop, "done" after parse() *)
(* has returned the Program, "thrown" after it was left by an exception.   *)
(* iterPos is the number of tokens fetched when the last pass through the  *)
(* loop body started.                                                      *)

ParserState ==
  [kind |-> dfaType, src |-> source,
   recover |-> config_.recoverFromErrors,
   lx |-> [input |-> input, hasMore_ |-> hasMore_, dfa_ |-> dfa_],
   toks |-> tokens, cur |-> currentToken_, last |-> lastToken_,
   errs |-> errors_, thrown |-> FALSE,
   tStorage_ |-> IF parser_ = "nullptr" THEN "defaultTValue_"
                 ELSE "tStorage_"]

Store(P) ==
  /\ input' = P.lx.input
  /\ hasMore_' = P.lx.hasMore_
  /\ dfa_' = P.lx.dfa_
  /\ tokens' = P.toks
  /\ currentToken_' = P.cur
  /\ lastToken_' = P.last
  /\ errors_' = P.errs
  /\ errorCount_' = errorCount_ + (Len(P.errs) - Len(errors_))
  /\ errorLog' =
       [errorLog EXCEPT
          !.errors_ = @ \o SubSeq(P.errs, Len(errors_) + 1, Len(P.errs))]

\* parse() up to the first test of program's loop
ParseBegin ==
  /\ pc = "idle"
  /\ \E P \in {Call("fetchToken", ParserState, "None")} : Store(P)
  /\ astRoot_' = <<>>
  /\ pc' = "program"
  /\ UNCHANGED <<source, dfaType, config_, callPos, iterPos, firstParse, interpreter,
                 semVars>>

\* one pass through the body of program's loop
ProgramIter ==
  /\ pc = "program"
  /\ currentToken_.type # "Eof"
  /\ config_.recoverFromErrors \/ Len(errors_) < MaxErrors
  /\ \E r \in {Call("programIter", ParserState, astRoot_)} :
        /\ Store(r.p)
        /\ astRoot_' = r.statements
        /\ pc' = IF r.p.thrown THEN "thrown" ELSE "program"
  /\ iterPos' = Len(tokens)
  /\ UNCHANGED <<source, dfaType, config_, callPos, firstParse, interpreter, semVars>>

\* program's loop ends and parse() returns astRoot_
ParseEnd ==
  /\ pc = "program"
  /\ currentToken_.type = "Eof"
  /\ pc' = "done"
  /\ UNCHANGED <<source, dfaType, config_, lexVars, currentToken_,
                 lastToken_, astRoot_, errors_, iterPos, errorCount_, errorLog,
                 firstParse, interpreter, semVars>>

NextParse == ParseBegin \/ ProgramIter \/ ParseEnd

ParserFresh ==
  /\ pc = "idle"
  /\ currentToken_ = DefaultToken
  /\ lastToken_ = DefaultToken
  /\ astRoot_ = <<>>
  /\ errors_ = <<>>
  /\ iterPos = 0

InitLex ==
  source \in LexSources /\ LexerFresh /\ ParserIdle /\ AnalyzerFresh("nullptr")

InitComment ==
  /\ source \in CommentSources
  /\ LexerFresh
  /\ ParserIdle
  /\ AnalyzerFresh("nullptr")

SpecLex == InitLex /\ [][NextLex]_vars

SpecComment == InitComment /\ [][NextLex]_vars

\* the lexer createLexerFromString makes when no automaton is asked for
LexerDefault == LexerFresh /\ dfaType = "TableDriven"

\* a parser as constructed, or after setConfig
InitParse ==
  /\ source \in ParseSources
  /\ LexerDefault
  /\ ParserFresh
  /\ config_ \in [recoverFromErrors : BOOLEAN]
  /\ AnalyzerFresh("nullptr")

InitKw ==
  /\ source \in KwSources
  /\ LexerDefault
  /\ ParserFresh
  /\ config_ = DrawParserConfig
  /\ AnalyzerFresh("nullptr")

InitExpr ==
  /\ source \in ExprSources
  /\ LexerDefault
  /\ ParserFresh
  /\ config_ = DrawParserConfig
  /\ AnalyzerFresh("nullptr")

SpecParse == InitParse /\ [][NextParse]_vars

SpecKw == InitKw /\ [][NextParse]_vars

SpecExpr == InitExpr /\ [][NextParse]_vars

-----------------------------------------------------------------------------
(* Statements that break the grammar, parsed with and without recovery.    *)

\* statements of every kind with a part missing
Broken ==
  {<<"F", "O", "R", " ", "T", " ", "F", "R", "O", "M", " ", "0", " ", "S",
     "T", "E", "P", " ", "1", " ", "D", "R", "A", "W", "(", "T", ")", ";",
     "\n">>,
   <<"F", "O", "R", " ", "T", ";", "\n">>,
   <<"C", "O", "L", "O", "R", " ", "I", "S", " ", ";", "\n">>,
   <<"C", "O", "L", "O", "R", " ", "I", "S", " ", "(", "1", ",", " ", "2",
     ")", ";", "\n">>,
   <<"S", "I", "Z", "E", " ", "I", "S", " ", ";", "\n">>,
   <<"S", "I", "Z", "E", " ", "I", "S", " ", "(", "1", ")", ";", "\n">>,
   <<"O", "R", "I", "G", "I", "N", " ", "I", "S", " ", "(", "1", ";", "\n">>,
   <<"S", "C", "A", "L", "E", " ", "I", "S", " ", "1", ",", " ", "2", ")",
     ";", "\n">>,
   <<"c", "o", "l", "o", "r", " ", "r", "e", "d">>}

ArityPieces == Broken \cup {WellFormed[4].text, WellFormed[8].text}

AritySources == {Concat(cs) : cs \in FragSeqs(ArityPieces, MaxChunks)}

InitArity ==
  /\ source \in AritySources
  /\ LexerDefault
  /\ ParserFresh
  /\ config_ \in [recoverFromErrors : BOOLEAN]
  /\ AnalyzerFresh("nullptr")

SpecArity == InitArity /\ [][NextParse]_vars

-----------------------------------------------------------------------------
(* matchToken called on its own: after the first fetchToken of parse(),    *)
(* matchToken is called with one expected keyword after the other, each    *)
(* call starting at the token the call before it has left.                 *)

MatchSources ==
  {<<"s", "c", "a", "l", "e", " ", "i", "s", " ", ";", "\n", "r", "o", "t",
     " ", "i", "s", " ", "p", "i", ";", "\n">>,
   <<"S", "C", "A", "L", "E", " ", "(", "1", ",", " ", "2", ";", "\n", "R",
     "O", "T", " ", "I", "S", " ", "0", ")", ";">>,
   <<"R", "O", "T", " ", "#", " ", "x", " ", "I", "S", " ", "1">>,
   <<";", ";", " ", "/", "/", " ", "c", "\n", ")">>,
   <<>>}

\* the keywords the statement routines and program() call matchToken with
MatchExpected ==
  {"Semico", "Assign", "R_bracket", "Comma", "Rot"}

MatchToken ==
  /\ pc = "program"
  /\ EofCount(tokens) < MaxEofTokens
  /\ \E expected \in MatchExpected :
       \E P \in {Call("matchToken", ParserState, expected)} : Store(P)
  /\ UNCHANGED <<source, dfaType, config_, callPos, pc, astRoot_, iterPos,
                 firstParse, interpreter, semVars>>

InitMatch ==
  /\ source \in MatchSources
  /\ LexerFresh
  /\ ParserFresh
  /\ config_ = DrawParserConfig
  /\ AnalyzerFresh("nullptr")

SpecMatch == InitMatch /\ [][ParseBegin \/ MatchToken]_vars


-----------------------------------------------------------------------------
(* DrawLangSemanticAnalyzer::run, as far as the calls of drawPixel go: the  *)
(* T cell and the sequence of T values at which drawLoop calls drawPixel.  *)
(* status is "ok" when run terminates with exactly these calls, "diverges" *)
(* when a loop never ends, and "unknown" when a bound of the loop is not   *)
(* an exact rational or a loop makes more than MaxLoop calls.              *)

MaxLoop == 8

IsRational(v) == ~IsUnrep(v) /\ (v.u = "1" \/ v.n = 0)

RLess(x, y) == x.n * y.d < y.n * x.d

getExpression(stmt, index) ==
  IF index + 1 <= Len(stmt.expressions_) THEN stmt.expressions_[index + 1]
  ELSE NullExpr

\* the for loop of drawLoop from tStorage_ = t on, with step > 0
RECURSIVE drawLoopFrom(_, _, _, _)
drawLoopFrom(t, endVal, stepVal, calls) ==
  IF IsUnrep(t) \/ Len(calls) > MaxLoop
    THEN [tStorage_ |-> t, calls |-> calls, status |-> "unknown"]
  ELSE IF RLess(endVal, t)
    THEN [tStorage_ |-> t, calls |-> calls, status |-> "ok"]
  ELSE drawLoopFrom(RAdd(t, stepVal), endVal, stepVal, Append(calls, t))

\* drawLoop on a ForDrawStmt node, entered with tStorage_ = t
drawLoop(stmt, t, calls) ==
  LET startTree == getExpression(stmt, 0)
      endTree == getExpression(stmt, 1)
      stepTree == getExpression(stmt, 2)
      startVal == IF startTree.kind # "Null" THEN value(startTree, t)
                  ELSE Zero
      endVal == IF endTree.kind # "Null" THEN value(endTree, t) ELSE Zero
      stepVal == IF stepTree.kind # "Null" THEN value(stepTree, t) ELSE One
      same == [tStorage_ |-> t, calls |-> calls, status |-> "ok"]
  IN IF ~(IsRational(startVal) /\ IsRational(endVal) /\ IsRational(stepVal))
       THEN [tStorage_ |-> t, calls |-> calls, status |-> "unknown"]
     ELSE IF IsZero(stepVal) THEN same
     ELSE IF (stepVal.n > 0 /\ RLess(endVal, startVal))
               \/ (stepVal.n < 0 /\ RLess(startVal, endVal)) THEN same
     ELSE IF stepVal.n > 0
       THEN drawLoopFrom(startVal, endVal, stepVal, calls)
     ELSE IF RLess(endVal, startVal)
       THEN [tStorage_ |-> startVal, calls |-> calls, status |-> "ok"]
     ELSE [tStorage_ |-> startVal, calls |-> Append(calls, startVal),
           status |-> "diverges"]

RECURSIVE runFrom(_, _, _)
runFrom(statements, i, st) ==
  IF i > Len(statements) \/ st.status # "ok" THEN st
  ELSE runFrom(statements, i + 1,
               IF statements[i].kind = "ForDrawStmt"
               THEN drawLoop(statements[i], st.tStorage_, st.calls)
               ELSE st)

run(statements) ==
  runFrom(statements, 1, [tStorage_ |-> Zero, calls |-> <<>>, status |-> "ok"])


-----------------------------------------------------------------------------
(* DrawLangSemanticAnalyzer as a state machine.  pc continues after        *)
(* parse(): "run" at the test of run's loop with stmtIndex its i,          *)
(* "drawLoop" at the test of drawLoop's for loop, "finished" after run has *)
(* returned.  drawnPixels_ is what the draw callback has received, one     *)
(* [x, y, attr] per call.  Coordinates and loop values are exact: the      *)
(* model follows a comparison only when its operands are rationals, and    *)
(* std::cos and std::sin are exact on the multiples of PI/2 and Unrep      *)
(* elsewhere.                                                              *)

\* ColorMap's constructor: the table colors_
ColorMap_colors_ ==
  {[name |-> <<"R", "E", "D">>, r |-> 255, g |-> 0, b |-> 0],
   [name |-> <<"G", "R", "E", "E", "N">>, r |-> 0, g |-> 255, b |-> 0],
   [name |-> <<"B", "L", "U", "E">>, r |-> 0, g |-> 0, b |-> 255],
   [name |-> <<"B", "L", "A", "C", "K">>, r |-> 0, g |-> 0, b |-> 0],
   [name |-> <<"W", "H", "I", "T", "E">>, r |-> 255, g |-> 255, b |-> 255],
   [name |-> <<"Y", "E", "L", "L", "O", "W">>, r |-> 255, g |-> 255, b |-> 0],
   [name |-> <<"C", "Y", "A", "N">>, r |-> 0, g |-> 255, b |-> 255],
   [name |-> <<"M", "A", "G", "E", "N", "T", "A">>,
    r |-> 255, g |-> 0, b |-> 255],
   [name |-> <<"G", "R", "A", "Y">>, r |-> 128, g |-> 128, b |-> 128],
   [name |-> <<"G", "R", "E", "Y">>, r |-> 128, g |-> 128, b |-> 128],
   [name |-> <<"O", "R", "A", "N", "G", "E">>, r |-> 255, g |-> 165, b |-> 0],
   [name |-> <<"P", "I", "N", "K">>, r |-> 255, g |-> 192, b |-> 203],
   [name |-> <<"P", "U", "R", "P", "L", "E">>, r |-> 128, g |-> 0, b |-> 128],
   [name |-> <<"B", "R", "O", "W", "N">>, r |-> 139, g |-> 69, b |-> 19]}

\* ColorMap::getRGB: [found, r, g, b]
ColorMap_getRGB(name) ==
  LET Found(entries) ==
        IF entries = {} THEN [found |-> FALSE, r |-> 0, g |-> 0, b |-> 0]
        ELSE LET c == CHOOSE e \in entries : TRUE
             IN [found |-> TRUE, r |-> c.r, g |-> c.g, b |-> c.b]
      Find(upper) == Found({e \in ColorMap_colors_ : e.name = upper})
  IN Find(toUpper(name))

\* ColorNameExprNode::getRGB that takes the name as it is spelled
ColorNameExprNode_getRGB_AsSpelled(node) ==
  LET Found(entries) ==
        IF entries = {} THEN [r |-> 255, g |-> 0, b |-> 0]
        ELSE LET c == CHOOSE e \in entries : TRUE
             IN [r |-> c.r, g |-> c.g, b |-> c.b]
  IN Found({e \in ColorMap_colors_ : e.name = node.token.lexeme})

ColorNameExprNode_getRGB(node) ==
  LET Got(c) == IF c.found THEN [r |-> c.r, g |-> c.g, b |-> c.b]
                ELSE [r |-> 255, g |-> 0, b |-> 0]
  IN Got(ColorMap_getRGB(toUpper(node.token.lexeme)))

\* the analyzer's T cell, which drawLoop writes and which the
\* ParamExprNodes built after setParser read
TCell == tStorage_

\* the number of quarter turns of an angle that is a multiple of PI/2,
\* modulo a full turn; -1 for any other angle
QuarterTurns(a) ==
  IF IsZero(a) THEN 0
  ELSE IF a.u = "PI" /\ a.d \in {1, 2} THEN (a.n * (2 \div a.d)) % 4
  ELSE -1

\* std::cos
RCos(a) ==
  CASE QuarterTurns(a) = 0 -> One
    [] QuarterTurns(a) = 2 -> IntVal(-1)
    [] QuarterTurns(a) \in {1, 3} -> Zero
    [] OTHER -> Unrep

\* std::sin
RSin(a) ==
  CASE QuarterTurns(a) = 1 -> One
    [] QuarterTurns(a) = 3 -> IntVal(-1)
    [] QuarterTurns(a) \in {0, 2} -> Zero
    [] OTHER -> Unrep

\* calcCoord that translates before it scales and rotates
calcCoord_TranslateFirst(xTree, yTree) ==
  LET Translated(x, y) == [x |-> RAdd(x, originX_), y |-> RAdd(y, originY_)]
      Scaled(p) == [x |-> RMul(p.x, scaleX_), y |-> RMul(p.y, scaleY_)]
      Rotated(p, cosAngle, sinAngle) ==
        [x |-> RAdd(RMul(p.x, cosAngle), RMul(p.y, sinAngle)),
         y |-> RSub(RMul(p.y, cosAngle), RMul(p.x, sinAngle))]
  IN Rotated(Scaled(Translated(
               IF xTree.kind # "Null" THEN value(xTree, TCell) ELSE Zero,
               IF yTree.kind # "Null" THEN value(yTree, TCell) ELSE Zero)),
             RCos(rotAngle_), RSin(rotAngle_))

\* calcCoord: [x, y]
calcCoord(xTree, yTree) ==
  LET Scaled(x, y) == [x |-> RMul(x, scaleX_), y |-> RMul(y, scaleY_)]
      Rotated(p, cosAngle, sinAngle) ==
        [x |-> RAdd(RMul(p.x, cosAngle), RMul(p.y, sinAngle)),
         y |-> RSub(RMul(p.y, cosAngle), RMul(p.x, sinAngle))]
      Translated(p) == [x |-> RAdd(p.x, originX_), y |-> RAdd(p.y, originY_)]
  IN Translated(Rotated(Scaled(
                  IF xTree.kind # "Null" THEN value(xTree, TCell) ELSE Zero,
                  IF yTree.kind # "Null" THEN value(yTree, TCell) ELSE Zero),
                RCos(rotAngle_), RSin(rotAngle_)))

\* setParser, called when the parser is at position at: the parser points
\* to the analyzer's T cell from then on
SetParserAt(at) ==
  /\ pc = at
  /\ parser_ = "nullptr"
  /\ parser_' = "parser"
  /\ UNCHANGED <<source, dfaType, config_, lexVars, parseVars, errorCount_, errorLog,
                 firstParse, interpreter, originX_, originY_, scaleX_, scaleY_,
                 rotAngle_, tStorage_, attr_, drawnPixels_, stmtIndex,
                 loopEndVal, loopStepVal, pointCount>>

\* setParser called before parse(), so that every ParamExprNode of the
\* program is created with the cell the parser points to afterwards
SetParser == SetParserAt("idle")

\* setParser called between parse() and run
SetParserAfterParse == SetParserAt("done")

\* run is called on the Program that parse() returned
RunBegin ==
  /\ pc = "done"
  /\ pc' = "run"
  /\ stmtIndex' = 0
  /\ UNCHANGED <<source, dfaType, config_, lexVars, currentToken_,
                 lastToken_, astRoot_, errors_, iterPos, errorCount_, errorLog,
                 firstParse, interpreter, parser_, originX_, originY_, scaleX_, scaleY_,
                 rotAngle_, tStorage_, attr_, drawnPixels_, loopEndVal,
                 loopStepVal, pointCount>>

\* run's loop is at a statement of this kind
AtStatement(kind) ==
  /\ pc = "run"
  /\ stmtIndex < Len(astRoot_)
  /\ astRoot_[stmtIndex + 1].kind = kind

\* program->getStatement(i)
Stmt == astRoot_[stmtIndex + 1]

\* what no statement changes
Frame ==
  UNCHANGED <<source, dfaType, config_, lexVars, currentToken_, lastToken_,
              astRoot_, errors_, iterPos, firstParse, interpreter, parser_>>

ExecuteOriginStmt ==
  /\ AtStatement("OriginStmt")
  /\ originX_' = childValue(Stmt, 0, TCell)
  /\ originY_' = childValue(Stmt, 1, TCell)
  /\ stmtIndex' = stmtIndex + 1
  /\ Frame
  /\ UNCHANGED <<pc, errorCount_, errorLog, scaleX_, scaleY_, rotAngle_, tStorage_,
                 attr_, drawnPixels_, loopEndVal, loopStepVal, pointCount>>

ExecuteScaleStmt ==
  /\ AtStatement("ScaleStmt")
  /\ scaleX_' = childValue(Stmt, 0, TCell)
  /\ scaleY_' = childValue(Stmt, 1, TCell)
  /\ stmtIndex' = stmtIndex + 1
  /\ Frame
  /\ UNCHANGED <<pc, errorCount_, errorLog, originX_, originY_, rotAngle_, tStorage_,
                 attr_, drawnPixels_, loopEndVal, loopStepVal, pointCount>>

ExecuteRotStmt ==
  /\ AtStatement("RotStmt")
  /\ rotAngle_' = childValue(Stmt, 0, TCell)
  /\ stmtIndex' = stmtIndex + 1
  /\ Frame
  /\ UNCHANGED <<pc, errorCount_, errorLog, originX_, originY_, scaleX_, scaleY_,
                 tStorage_, attr_, drawnPixels_, loopEndVal, loopStepVal,
                 pointCount>>

ExecuteColorStmt ==
  /\ AtStatement("ColorStmt")
  /\ IF Stmt.useColorName_
       THEN \E c \in {ColorNameExprNode_getRGB(Stmt.colorName_[1])} :
              attr_' = PixelAttribute_setColor(attr_, IntVal(c.r),
                                               IntVal(c.g), IntVal(c.b))
       ELSE \E red \in ChannelArguments(childValue(Stmt, 0, TCell)),
               green \in ChannelArguments(childValue(Stmt, 1, TCell)),
               blue \in ChannelArguments(childValue(Stmt, 2, TCell)) :
              attr_' = PixelAttribute_setColor(attr_, red, green, blue)
  /\ stmtIndex' = stmtIndex + 1
  /\ Frame
  /\ UNCHANGED <<pc, errorCount_, errorLog, originX_, originY_, scaleX_, scaleY_,
                 rotAngle_, tStorage_, drawnPixels_, loopEndVal,
                 loopStepVal, pointCount>>

\* executeSizeStmt that sets whatever size the statement gives
executeSizeStmt_Unchecked(attr, sz) == PixelAttribute_setSize(attr, sz)

\* executeSizeStmt on the value sz of the statement: the new attr_
executeSizeStmt(attr, sz) ==
  IF ~RLess(sz, One) THEN PixelAttribute_setSize(attr, sz) ELSE attr

ExecuteSizeStmt ==
  /\ AtStatement("SizeStmt")
  /\ IsRational(childValue(Stmt, 0, TCell))
  /\ attr_' = executeSizeStmt(attr_, childValue(Stmt, 0, TCell))
  /\ stmtIndex' = stmtIndex + 1
  /\ Frame
  /\ UNCHANGED <<pc, errorCount_, errorLog, originX_, originY_, scaleX_, scaleY_,
                 rotAngle_, tStorage_, drawnPixels_, loopEndVal,
                 loopStepVal, pointCount>>

\* ErrorLog::error that logs without counting
ErrorLog_error_NoCount(count) == count

\* ErrorLog::error: the new errorCount_
ErrorLog_error(count) == count + 1

RECURSIVE IsPowerOfTwo(_)
IsPowerOfTwo(d) == d = 1 \/ (d % 2 = 0 /\ IsPowerOfTwo(d \div 2))

\* a rational that a double holds exactly, so that the additions of the
\* for loop are exact
IsDyadic(v) == IsRational(v) /\ IsPowerOfTwo(v.d)

\* drawLoop without the test of the step's direction
drawLoopEntry_NoDirectionCheck(stmt, t) ==
  LET Checked(startVal, end, step) ==
        [startVal |-> startVal, endVal |-> end, stepVal |-> step,
         outcome |-> IF IsZero(step) THEN "zero" ELSE "loop"]
      Tree(tree, missing) ==
        IF tree.kind # "Null" THEN value(tree, t) ELSE missing
  IN Checked(Tree(getExpression(stmt, 0), Zero),
             Tree(getExpression(stmt, 1), Zero),
             Tree(getExpression(stmt, 2), One))

\* drawLoop up to its for loop: [startVal, endVal, stepVal, outcome] with
\* outcome "zero" (error, return), "mismatch" (return) or "loop"
drawLoopEntry(stmt, t) ==
  LET Checked(startVal, end, step) ==
        [startVal |-> startVal, endVal |-> end, stepVal |-> step,
         outcome |->
           IF IsZero(step) THEN "zero"
           ELSE IF (step.n > 0 /\ RLess(end, startVal))
                     \/ (step.n < 0 /\ RLess(startVal, end)) THEN "mismatch"
           ELSE "loop"]
      Tree(tree, missing) ==
        IF tree.kind # "Null" THEN value(tree, t) ELSE missing
  IN Checked(Tree(getExpression(stmt, 0), Zero),
             Tree(getExpression(stmt, 1), Zero),
             Tree(getExpression(stmt, 2), One))

\* executeForDrawStmt: drawLoop up to the first test of its for loop
ExecuteForDrawStmt ==
  /\ AtStatement("ForDrawStmt")
  /\ \E e \in {drawLoopEntry(Stmt, TCell)} :
        /\ IsDyadic(e.startVal) /\ IsRational(e.endVal)
        /\ IsDyadic(e.stepVal)
        /\ errorCount_' = IF e.outcome = "zero"
                            THEN ErrorLog_error(errorCount_)
                            ELSE errorCount_
        \* ErrorLog::error counts the error without recording it, and the
        \* warning goes to spdlog::warn, not to the ErrorLog
        /\ errorLog' = errorLog
        /\ IF e.outcome = "loop"
             THEN /\ pc' = "drawLoop"
                  /\ tStorage_' = e.startVal
                  /\ loopEndVal' = e.endVal
                  /\ loopStepVal' = e.stepVal
                  /\ stmtIndex' = stmtIndex
             ELSE /\ stmtIndex' = stmtIndex + 1
                  /\ UNCHANGED <<pc, tStorage_, loopEndVal, loopStepVal>>
  /\ pointCount' = 0
  /\ Frame
  /\ UNCHANGED <<originX_, originY_, scaleX_, scaleY_, rotAngle_, attr_,
                 drawnPixels_>>

\* the for loop's test that stops before the end value
drawLoopTest_Exclusive(t, end) == RLess(t, end)

\* the test tStorage_ <= endVal of drawLoop's for loop
drawLoopTest(t, end) == ~RLess(end, t)

\* drawPixel that hands the callback a default attribute
drawPixel_DefaultAttr(pixels, p, attr) ==
  Append(pixels, [x |-> p.x, y |-> p.y, attr |-> PixelAttribute])

\* drawPixel: the callback receives x, y and the attribute
drawPixel(pixels, p, attr) ==
  Append(pixels, [x |-> p.x, y |-> p.y, attr |-> attr])

\* one pass through the body of drawLoop's for loop
DrawLoopBody ==
  /\ pc = "drawLoop"
  /\ drawLoopTest(tStorage_, loopEndVal)
  /\ pointCount < MaxLoop
  /\ drawnPixels_' = drawPixel(drawnPixels_,
                               calcCoord(getExpression(Stmt, 3),
                                         getExpression(Stmt, 4)), attr_)
  /\ tStorage_' = RAdd(tStorage_, loopStepVal)
  /\ pointCount' = pointCount + 1
  /\ Frame
  /\ UNCHANGED <<pc, errorCount_, errorLog, originX_, originY_, scaleX_, scaleY_,
                 rotAngle_, attr_, stmtIndex, loopEndVal, loopStepVal>>

\* the for loop ends, drawLoop returns and run goes on
DrawLoopEnd ==
  /\ pc = "drawLoop"
  /\ ~drawLoopTest(tStorage_, loopEndVal)
  /\ pc' = "run"
  /\ stmtIndex' = stmtIndex + 1
  /\ Frame
  /\ UNCHANGED <<errorCount_, errorLog, originX_, originY_, scaleX_, scaleY_,
                 rotAngle_, tStorage_, attr_, drawnPixels_, loopEndVal,
                 loopStepVal, pointCount>>

\* run's loop ends and run returns 0
RunEnd ==
  /\ pc = "run"
  /\ stmtIndex >= Len(astRoot_)
  /\ pc' = "finished"
  /\ Frame
  /\ UNCHANGED <<errorCount_, errorLog, originX_, originY_, scaleX_, scaleY_,
                 rotAngle_, tStorage_, attr_, drawnPixels_, stmtIndex,
                 loopEndVal, loopStepVal, pointCount>>

ExecuteStatement ==
  \/ ExecuteOriginStmt
  \/ ExecuteScaleStmt
  \/ ExecuteRotStmt
  \/ ExecuteForDrawStmt
  \/ ExecuteColorStmt
  \/ ExecuteSizeStmt

NextRun ==
  \/ RunBegin
  \/ ExecuteStatement
  \/ DrawLoopBody
  \/ DrawLoopEnd
  \/ RunEnd

\* the analyzer is constructed on the parser of the interpreter's lexer
InitDraw ==
  /\ source \in DrawSources
  /\ LexerDefault
  /\ ParserFresh
  /\ config_ = DrawParserConfig
  /\ AnalyzerFresh("parser")

\* the analyzer is constructed alone; the scanner uses the hard-coded
\* automaton
InitLoop ==
  /\ source \in LoopSources
  /\ LexerFresh
  /\ dfaType = "HardCoded"
  /\ ParserFresh
  /\ config_ = DrawParserConfig
  /\ AnalyzerFresh("nullptr")

SpecDraw == InitDraw /\ [][NextParse \/ NextRun]_vars

SpecLoop == InitLoop /\ [][SetParser \/ NextParse \/ NextRun]_vars

-----------------------------------------------------------------------------
(* DrawLangInterpreter::executeFromString as a state machine.  The call    *)
(* has cleared the interpreter's error list, made the lexer (table-driven  *)
(* automaton) and the parser over the source and attached the analyzer to  *)
(* the parser; parse() and run follow, and the call returns from its last  *)
(* statement or from its catch clause.                                     *)

\* statements that draw or set, and texts with a lexical error, with an
\* expression missing, and with a ')' missing
ExecPieces ==
  {<<"F", "O", "R", " ", "T", " ", "F", "R", "O", "M", " ", "0", " ", "T",
     "O", " ", "1", " ", "S", "T", "E", "P", " ", "1", " ", "D", "R", "A",
     "W", "(", "T", ",", " ", "T", ")", ";", "\n">>,
   <<"O", "R", "I", "G", "I", "N", " ", "I", "S", " ", "(", "1", ",", " ",
     "1", ")", ";", " ", "S", "C", "A", "L", "E", " ", "I", "S", " ", "(",
     "2", ",", " ", "2", ")", ";", " ", "R", "O", "T", " ", "I", "S", " ",
     "0", ";", "\n">>,
   <<"C", "O", "L", "O", "R", " ", "I", "S", " ", "B", "L", "U", "E", ";",
     " ", "S", "I", "Z", "E", " ", "I", "S", " ", "2", ";", "\n">>,
   <<"#">>,
   <<"R", "O", "T", " ", "I", "S", " ", ";", "\n">>,
   <<"S", "C", "A", "L", "E", " ", "I", "S", " ", "(", "1", ",", " ", "2",
     ";", "\n", "R", "O", "T", " ", "I", "S", " ", "0", ")", ";", "\n">>}

ExecSources == {Concat(cs) : cs \in FragSeqs(ExecPieces, MaxStmts)}

\* DrawParseError::toString: "[line:column] message"
DrawParseError_toString(e) == <<"[", e.line, ":", e.column, "] ", e.message>>

\* parse() has returned: the parser's errors are copied and run is called
ExecuteRun ==
  /\ pc = "done"
  /\ interpreter' =
       [interpreter EXCEPT
          !.errors_ = @ \o [k \in 1..Len(errors_) |->
                              DrawParseError_toString(errors_[k])]]
  /\ pc' = "run"
  /\ stmtIndex' = 0
  /\ UNCHANGED <<source, dfaType, config_, lexVars, currentToken_,
                 lastToken_, astRoot_, errors_, iterPos, errorCount_, errorLog,
                 firstParse, parser_, originX_, originY_, scaleX_, scaleY_,
                 rotAngle_, tStorage_, attr_, drawnPixels_, loopEndVal,
                 loopStepVal, pointCount>>

\* return result == 0 && errors_.empty()
ExecuteReturn ==
  /\ pc = "finished"
  /\ interpreter' =
       [interpreter EXCEPT
          !.returned = IF interpreter.errors_ = <<>> THEN "true"
                       ELSE "false"]
  /\ pc' = "returned"
  /\ UNCHANGED <<source, dfaType, config_, lexVars, currentToken_,
                 lastToken_, astRoot_, errors_, iterPos, errorCount_, errorLog,
                 firstParse, semVars>>

\* catch (const std::exception &ex): the exception that left parse()
ExecuteCatch ==
  /\ pc = "thrown"
  /\ interpreter' =
       [errors_ |-> Append(interpreter.errors_,
                           <<"Exception: ", "bad_variant_access">>),
        returned |-> "false"]
  /\ pc' = "returned"
  /\ UNCHANGED <<source, dfaType, config_, lexVars, currentToken_,
                 lastToken_, astRoot_, errors_, iterPos, errorCount_, errorLog,
                 firstParse, semVars>>

NextExec ==
  \/ NextParse
  \/ ExecuteRun
  \/ ExecuteStatement
  \/ DrawLoopBody
  \/ DrawLoopEnd
  \/ RunEnd
  \/ ExecuteCatch
  \/ ExecuteReturn

InitExec ==
  /\ source \in ExecSources
  /\ LexerDefault
  /\ ParserFresh
  /\ config_ = DrawParserConfig
  /\ AnalyzerFresh("parser")

SpecExec == InitExec /\ [][NextExec]_vars

-----------------------------------------------------------------------------
(* Parsing a source twice: after parse() has ended, a new scanner and a    *)
(* new parser with the same configuration are made over the same source    *)
(* and parse() is called again.  firstParse keeps what the first call      *)
(* produced; the ErrorLog is the same object throughout.                   *)

\* a scanner that starts where the previous one stopped
createLexerFromString_Resumed(src, kind) ==
  [input |-> input, hasMore_ |-> hasMore_, dfa_ |-> dfa_]

\* createLexerFromString: the members of the new SimpleLexer
createLexerFromString(src, kind) ==
  [input |-> InitLocation, hasMore_ |-> TRUE, dfa_ |-> DFAReset]

ParseAgain ==
  /\ pc \in {"done", "thrown"}
  /\ firstParse = <<>>
  /\ firstParse' = <<[outcome |-> pc, astRoot_ |-> astRoot_,
                      errors_ |-> errors_]>>
  /\ \E lx \in {createLexerFromString(source, dfaType)} :
        /\ input' = lx.input
        /\ hasMore_' = lx.hasMore_
        /\ dfa_' = lx.dfa_
  /\ tokens' = <<>>
  /\ callPos' = 0
  /\ pc' = "idle"
  /\ currentToken_' = DefaultToken
  /\ lastToken_' = DefaultToken
  /\ astRoot_' = <<>>
  /\ errors_' = <<>>
  /\ iterPos' = 0
  /\ UNCHANGED <<source, dfaType, config_, errorCount_, errorLog, interpreter,
                 semVars>>

InitTwice ==
  /\ source \in TwiceSources
  /\ LexerDefault
  /\ ParserFresh
  /\ config_ \in [recoverFromErrors : BOOLEAN]
  /\ AnalyzerFresh("nullptr")

SpecTwice == InitTwice /\ [][NextParse \/ ParseAgain]_vars

-----------------------------------------------------------------------------
(* Reference notions used by the properties                                *)

OtherDFA(kind) == IF kind = "TableDriven" THEN "HardCoded" ELSE "TableDriven"

\* the automaton state after feeding str from state st (-1: no transition)
RECURSIVE Replay(_, _, _)
Replay(kind, st, str) ==
  IF str = <<>> \/ st < 0 THEN st
  ELSE Replay(kind, move(kind, st, Head(str)), Tail(str))

IsBlankChar(c) == c \in {" ", "\t", "\n", "\r"}

\* a comment marker starts at index k of src
StartsComment(src, k) ==
  /\ k + 1 <= Len(src)
  /\ src[k] \in {"/", "-"}
  /\ src[k + 1] = src[k]

\* the first offset >= k at which the line ends (a line break or the end)
RECURSIVE EndOfLine(_, _)
EndOfLine(src, k) ==
  IF k >= Len(src) \/ src[k + 1] \in {"\n", "\r"} THEN k
  ELSE EndOfLine(src, k + 1)

\* from offset k on, src holds only whitespace and comments
RECURSIVE OnlyBlank(_, _)
OnlyBlank(src, k) ==
  IF k >= Len(src) THEN TRUE
  ELSE IF IsBlankChar(src[k + 1]) THEN OnlyBlank(src, k + 1)
  ELSE IF StartsComment(src, k + 1) THEN OnlyBlank(src, EndOfLine(src, k + 2))
  ELSE FALSE

\* src with every comment (marker and body, not the line break) removed
RECURSIVE StripComments(_, _)
StripComments(src, k) ==
  IF k >= Len(src) THEN <<>>
  ELSE IF StartsComment(src, k + 1)
    THEN StripComments(src, EndOfLine(src, k + 2))
  ELSE <<src[k + 1]>> \o StripComments(src, k + 1)

TokEnd(t) == t.position - 1 + Len(t.lexeme)

LastToken == tokens[Len(tokens)]

Lit15e10 == <<"1", ".", "5", "e", "1", "0">>

-----------------------------------------------------------------------------
(* C1: the table-driven and the directly-coded automaton have the same     *)
(* transition (or none) for every state 0..16 and every character, the     *)
(* same accepting classification and accepted token category; a scanner    *)
(* built on either returns the same token stream (category, lexeme,        *)
(* keyword id, location) for the same input.                               *)

EncodingsAgree ==
  \A st \in 0..16 :
    /\ TableDrivenDFA_stateIsFinal(st) = HardCodedDFA_stateIsFinal(st)
    /\ updateStateInfo("TableDriven", st) = updateStateInfo("HardCoded", st)
    /\ \A c \in CharSet :
         TableDrivenDFA_move(st, c) = HardCodedDFA_move(st, c)

C1_EncodingsEquivalent ==
  /\ EncodingsAgree
  /\ tokens = TokenStream(OtherDFA(dfaType), source, Len(tokens))

C1_Witness ==
  /\ dfaType = "TableDriven"
  /\ Len(tokens) >= 3
  /\ tokens[1].lexeme = Lit15e10
  /\ tokens[2].type = "Invalid"
  /\ tokens[3].type = "Eof"

(* C2: maximal munch.  Every returned token's lexeme is the source text    *)
(* from its first character up to the first character the automaton        *)
(* rejects; only that character is pushed back, so the cursor rests on it  *)
(* (a line break is consumed) and a rejected non-blank character starts    *)
(* the next lexeme.  "1.5e10" is one Literal, "**" one Power operator.     *)

C2_MaximalMunch ==
  /\ \A i \in 1..Len(tokens) :
       tokens[i].type # "Eof" =>
         LET t == tokens[i]
             start == t.position - 1
             end == TokEnd(t)
         IN /\ Len(t.lexeme) >= 1
            /\ SubSeq(source, start + 1, end) = t.lexeme
            /\ (end < Len(source) /\ move(dfaType, 0, t.lexeme[1]) >= 0)
                 => move(dfaType, Replay(dfaType, 0, t.lexeme),
                         source[end + 1]) < 0
            /\ (/\ i < Len(tokens)
                /\ end < Len(source)
                /\ ~IsBlankChar(source[end + 1])
                /\ ~StartsComment(source, end + 1))
                 => /\ tokens[i + 1].type # "Eof"
                    /\ tokens[i + 1].position - 1 = end
                    /\ tokens[i + 1].lexeme[1] = source[end + 1]
            /\ (t.lexeme[1] = "*" /\ end <= Len(source)
                  /\ start + 2 <= Len(source) /\ source[start + 2] = "*")
                 => /\ t.lexeme = <<"*", "*">>
                    /\ t.type = "Operator"
                    /\ t.keyword = "Power"
  /\ (tokens # <<>> /\ LastToken.type # "Eof")
       => LET end == TokEnd(LastToken)
          IN input.position =
               IF /\ move(dfaType, 0, LastToken.lexeme[1]) >= 0
                  /\ end < Len(source)
                  /\ source[end + 1] = "\n"
               THEN end + 1
               ELSE end
  /\ (/\ tokens # <<>>
      /\ Len(source) >= 6
      /\ SubSeq(source, 1, 6) = Lit15e10
      /\ (Len(source) > 6 => ~InRange(source[7], "0", "9")))
       => /\ tokens[1].type = "Literal"
          /\ tokens[1].lexeme = Lit15e10
          /\ tokens[1].literalType = "Float"

C2_Witness ==
  /\ Len(tokens) >= 3
  /\ tokens[1].lexeme = Lit15e10
  /\ tokens[2].lexeme = <<"*", "*">>
  /\ tokens[2].position - 1 = TokEnd(tokens[1])
  /\ tokens[3].type = "Eof"

(* C3: for both comment spellings and every comment body, the empty body   *)
(* included, no Comment token is returned and the comment discards exactly *)
(* the rest of its own line: the tokens returned are those of the source   *)
(* with the comments removed, on the same lines.                           *)

TokenView(t) ==
  [type |-> t.type, lexeme |-> t.lexeme, keyword |-> t.keyword,
   line |-> t.line]

C3_CommentDiscardsOwnLine ==
  LET expected == TokenStream(dfaType, StripComments(source, 0), Len(tokens))
  IN \A i \in 1..Len(tokens) :
       /\ tokens[i].type # "Comment"
       /\ TokenView(tokens[i]) = TokenView(expected[i])

(* C5: when only whitespace and comments remain, nextToken returns         *)
(* EndOfInput; after EndOfInput was returned hasMoreTokens() is false and  *)
(* every later nextToken returns EndOfInput.                               *)

OriginSpellings == {<<"o", "r", "i", "g", "i", "n">>, <<"O", "r", "i", "g", "i", "n">>, <<"O", "R", "I", "G", "I", "N">>}

SinSpellings == {<<"s", "i", "n">>, <<"S", "i", "n">>, <<"S", "I", "N">>}

SizeSpellings ==
  {<<"S", "I", "Z", "E">>,
   <<"s", "i", "z", "e">>,
   <<"S", "i", "z", "e">>,
   <<"P", "I", "X">>,
   <<"p", "i", "x">>,
   <<"P", "I", "X", "S", "I", "Z", "E">>,
   <<"P", "i", "x", "S", "i", "z", "e">>,
   <<"P", "I", "X", "E", "L", "S", "I", "Z", "E">>,
   <<"p", "i", "x", "e", "l", "s", "i", "z", "e">>}

CaseFold(str) ==
  [i \in 1..Len(str) |->
     IF InRange(str[i], "a", "z") THEN Chr(Ord(str[i]) - 32) ELSE str[i]]

Spelled(t) == SubSeq(source, t.position, t.position + Len(t.lexeme) - 1)

StartsStatement(i) == i = 1 \/ tokens[i - 1].keyword = "Semico"

C4_KeywordsCaseInsensitive ==
  /\ \A i \in 1..Len(tokens) :
       LET t == tokens[i]
       IN /\ t.lexeme = Spelled(t)
          /\ t.lexeme \in OriginSpellings =>
               t.type = "Keyword" /\ t.keyword = "Origin"
          /\ t.lexeme \in SinSpellings =>
               t.type = "Keyword" /\ t.keyword = "Func"
          /\ t.lexeme \in SizeSpellings =>
               t.type = "Keyword" /\ t.keyword = "Size"
          /\ \A j \in 1..Len(tokens) :
               CaseFold(tokens[j].lexeme) = CaseFold(t.lexeme) =>
                 tokens[j].type = t.type /\ tokens[j].keyword = t.keyword
  /\ pc = "done" =>
       \A i \in 1..Len(tokens) :
         StartsStatement(i) /\ tokens[i].lexeme \in SizeSpellings =>
           \E k \in 1..Len(astRoot_) :
             astRoot_[k].kind = "SizeStmt" /\ astRoot_[k].token = tokens[i]

C4_Witness ==
  /\ pc = "done"
  /\ tokens[1].lexeme = <<"p", "i", "x">>
  /\ Len(astRoot_) = 2
  /\ astRoot_[1].kind = "SizeStmt"
  /\ astRoot_[2].kind = "SizeStmt"
  /\ astRoot_[2].token.lexeme = <<"P", "I", "X", "E", "L", "S", "I", "Z", "E">>
  /\ \E i \in 1..Len(tokens) :
       tokens[i].lexeme = <<"S", "i", "n">> /\ tokens[i].keyword = "Func"

(* C6: with the configuration a parser is constructed with, parse() ends   *)
(* by returning the Program, never by an exception, and every pass through *)
(* the body of program's loop fetches at least one token.                  *)
C6_ParseReturnsProgram ==
  config_ = DrawParserConfig =>
    /\ pc # "thrown"
    /\ pc \in {"program", "done"} => iterPos < Len(tokens)

StmtIndex(src) ==
  {k \in 1..Len(WellFormed) :
     /\ Len(WellFormed[k].text) <= Len(src)
     /\ SubSeq(src, 1, Len(WellFormed[k].text)) = WellFormed[k].text}

\* the statements src is made of, 0 standing for a rest that is not one
RECURSIVE Statements(_)
Statements(src) ==
  IF src = <<>> THEN <<>>
  ELSE IF StmtIndex(src) = {} THEN <<0>>
  ELSE LET k == CHOOSE k \in StmtIndex(src) : TRUE
       IN <<k>> \o Statements(SubSeq(src, Len(WellFormed[k].text) + 1,
                                     Len(src)))

IsWellFormed(src) ==
  \A i \in 1..Len(Statements(src)) : Statements(src)[i] # 0

Kinds(statements) == [k \in 1..Len(statements) |-> statements[k].kind]

EndsUnterminated(src) ==
  /\ Len(src) >= Len(Unterminated)
  /\ SubSeq(src, Len(src) - Len(Unterminated) + 1, Len(src)) = Unterminated
  /\ IsWellFormed(SubSeq(src, 1, Len(src) - Len(Unterminated)))

IsDigitTok(t) == t.type = "Literal" /\ Len(t.lexeme) = 1

Operand(t) == IntVal(Ord(t.lexeme[1]) - 48)

\* "ROT IS a op b op c ;"
ThreeOperands ==
  /\ Len(tokens) >= 8
  /\ tokens[1].keyword = "Rot"
  /\ tokens[2].keyword = "Assign"
  /\ IsDigitTok(tokens[3]) /\ IsDigitTok(tokens[5]) /\ IsDigitTok(tokens[7])
  /\ tokens[4].type = "Operator"
  /\ tokens[6].type = "Operator"
  /\ tokens[8].keyword = "Semico"

\* "ROT IS - a ** b ;"
NegatedPower ==
  /\ Len(tokens) >= 7
  /\ tokens[1].keyword = "Rot"
  /\ tokens[2].keyword = "Assign"
  /\ tokens[3].keyword = "Minus"
  /\ IsDigitTok(tokens[4]) /\ IsDigitTok(tokens[6])
  /\ tokens[5].keyword = "Power"
  /\ tokens[7].keyword = "Semico"

Apply(op, x, y) ==
  CASE op = "Plus" -> RAdd(x, y)
    [] op = "Minus" -> RSub(x, y)
    [] op = "Mul" -> RMul(x, y)
    [] op = "Div" -> IF IsZero(y) THEN Zero ELSE RQuot(x, y)
    [] op = "Power" -> RPow(x, y)

Binds(op) == IF op \in {"Mul", "Div"} THEN 2 ELSE 1

Const(t) == ExprNode("ConstExpr", t, <<>>, Operand(t), "nullptr")

\* (a op1 b) op2 c and a op1 (b op2 c) over tokens 3..7
LeftGrouped ==
  BinaryExprNode(tokens[6],
                 BinaryExprNode(tokens[4], Const(tokens[3]), Const(tokens[5])),
                 Const(tokens[7]))

RightGrouped ==
  BinaryExprNode(tokens[4], Const(tokens[3]),
                 BinaryExprNode(tokens[6], Const(tokens[5]), Const(tokens[7])))

Angle == astRoot_[1].expressions_[1]

(* C9: in a op1 b op2 c with op1, op2 among + - * /, the operators * and / *)
(* bind tighter than + and -, and operators of equal precedence group to   *)
(* the left: the tree is a op1 (b op2 c) exactly when op2 is * or / and    *)
(* op1 is + or -, and (a op1 b) op2 c otherwise, and its value is that of  *)
(* this grouping.                                                          *)
C9_PrecedenceAndLeftAssociativity ==
  (/\ pc = "done"
   /\ ThreeOperands
   /\ tokens[4].keyword \in {"Plus", "Minus", "Mul", "Div"}
   /\ tokens[6].keyword \in {"Plus", "Minus", "Mul", "Div"}) =>
    LET op1 == tokens[4].keyword
        op2 == tokens[6].keyword
        a == Operand(tokens[3])
        b == Operand(tokens[5])
        c == Operand(tokens[7])
    IN /\ Len(astRoot_) = 1
       /\ errors_ = <<>>
       /\ IF Binds(op2) > Binds(op1)
          THEN /\ Angle = RightGrouped
               /\ value(Angle, Zero) = Apply(op1, a, Apply(op2, b, c))
          ELSE /\ Angle = LeftGrouped
               /\ value(Angle, Zero) = Apply(op2, Apply(op1, a, b), c)

C9_Witness ==
  /\ pc = "done"
  /\ source = <<"R", "O", "T", " ", "I", "S", " ", "2", "+", "3", "*", "4", ";">>
  /\ Angle = RightGrouped
  /\ value(Angle, Zero) = IntVal(14)

(* C10: ** groups to the right, a ** b ** c being a ** (b ** c), and binds *)
(* tighter than a unary sign, - a ** b being -(a ** b): 2**3**2 is 512 and *)
(* -2**2 is -4.                                                            *)
C10_PowerRightAssociative ==
  /\ (/\ pc = "done"
      /\ ThreeOperands
      /\ tokens[4].keyword = "Power"
      /\ tokens[6].keyword = "Power") =>
       /\ Len(astRoot_) = 1
       /\ Angle = RightGrouped
       /\ value(Angle, Zero) =
            RPow(Operand(tokens[3]),
                 RPow(Operand(tokens[5]), Operand(tokens[7])))
  /\ (pc = "done" /\ NegatedPower) =>
       /\ Len(astRoot_) = 1
       /\ Angle = UnaryExprNode(tokens[3],
                    BinaryExprNode(tokens[5], Const(tokens[4]),
                                   Const(tokens[6])))
       /\ value(Angle, Zero) =
            RNeg(RPow(Operand(tokens[4]), Operand(tokens[6])))
  /\ (pc = "done" /\ source = <<"R", "O", "T", " ", "I", "S", " ", "-", "2", "*", "*", "2", ";">>) => value(Angle, Zero) = IntVal(-4)

C10_Witness ==
  /\ pc = "done"
  /\ source = <<"R", "O", "T", " ", "I", "S", " ", "2", "*", "*", "3", "*", "*", "2", ";">>
  /\ Angle = RightGrouped
  /\ value(Angle, Zero) = IntVal(512)

-----------------------------------------------------------------------------
(* C11: parsing is deterministic.  When a source is parsed a second time   *)
(* by a new scanner and a new parser with the same configuration, the      *)
(* second parse() ends as the first did (returning or throwing), with the  *)
(* same list of errors, and a returned Program has the same statements:    *)
(* the same nodes with the same tokens, values and children in the same    *)
(* order.                                                                  *)

SecondParseEnded == firstParse # <<>> /\ pc \in {"done", "thrown"}

-----------------------------------------------------------------------------
(* Reference notions for the loops.  They are read off the statement node  *)
(* that run has just executed; the bounds of the loops are constants, so   *)
(* the content of the T cell does not matter to them.                      *)

\* run has just returned from executeStatement on a FOR-DRAW statement
AfterLoop ==
  /\ pc = "run"
  /\ stmtIndex >= 1
  /\ astRoot_[stmtIndex].kind = "ForDrawStmt"

LoopStmt == astRoot_[stmtIndex]
LoopStart == value(getExpression(LoopStmt, 0), Zero)
LoopEnd == value(getExpression(LoopStmt, 1), Zero)
LoopStep == value(getExpression(LoopStmt, 2), Zero)

\* the calls of the draw callback made by the loop just executed
LoopPixels ==
  SubSeq(drawnPixels_, Len(drawnPixels_) - pointCount + 1, Len(drawnPixels_))

\* the k-th value start, start + step, ...
LoopValue(k) == RAdd(LoopStart, RMul(IntVal(k - 1), LoopStep))

\* the number of values start, start + step, ... that have not passed end
LoopCount ==
  LET q == RQuot(RSub(LoopEnd, LoopStart), LoopStep) IN (q.n \div q.d) + 1

IdentityTransform ==
  /\ originX_ = Zero /\ originY_ = Zero
  /\ scaleX_ = One /\ scaleY_ = One
  /\ rotAngle_ = Zero

\* the loop just executed called the callback once per value, in order,
\* with the coordinates that x and y have when T is that value
OncePerValue ==
  /\ pointCount = LoopCount
  /\ \A k \in 1..pointCount :
       /\ LoopPixels[k].x = value(getExpression(LoopStmt, 3), LoopValue(k))
       /\ LoopPixels[k].y = value(getExpression(LoopStmt, 4), LoopValue(k))

C13_LoopBothDirections ==
  (/\ AfterLoop
   /\ parser_ # "nullptr"
   /\ IdentityTransform
   /\ \/ LoopStep.n > 0 /\ RLess(LoopStart, LoopEnd)
      \/ LoopStep.n < 0 /\ RLess(LoopEnd, LoopStart)) => OncePerValue

\* run is about to execute a FOR-DRAW statement whose step is this kind
AtLoopWith(P(_, _, _)) ==
  /\ AtStatement("ForDrawStmt")
  /\ P(value(getExpression(Stmt, 0), TCell),
       value(getExpression(Stmt, 1), TCell),
       value(getExpression(Stmt, 2), TCell))

ZeroStep(startVal, end, step) == IsZero(step)

(* C14: executing a FOR-DRAW statement whose step is 0 makes no draw call, *)
(* records exactly one error in the ErrorLog, and run goes on with the     *)
(* statement that follows.                                                 *)
C14_ZeroStepOneError ==
  [][AtLoopWith(ZeroStep) =>
       /\ drawnPixels_' = drawnPixels_
       /\ errorCount_' = errorCount_ + 1
       /\ pc' = "run"
       /\ stmtIndex' = stmtIndex + 1]_vars

\* run has finished a program whose first loop has step 0 and whose second
\* loop is 0 TO 5 STEP 1: one error, and the six calls of the second loop
C14_Witness ==
  /\ pc = "finished"
  /\ Len(astRoot_) = 2
  /\ astRoot_[1].kind = "ForDrawStmt"
  /\ IsZero(value(getExpression(astRoot_[1], 2), Zero))
  /\ errorCount_ = 1
  /\ Len(drawnPixels_) = 6

Mismatch(startVal, end, step) ==
  \/ step.n > 0 /\ RLess(end, startVal)
  \/ step.n < 0 /\ RLess(startVal, end)

(* C15: executing a FOR-DRAW statement whose step points away from end (a  *)
(* positive step with start > end, or a negative step with start < end)    *)
(* makes no draw call and records no error, and run goes on with the       *)
(* statement that follows.                                                 *)
C15_DirectionMismatchSkips ==
  [][AtLoopWith(Mismatch) =>
       /\ drawnPixels_' = drawnPixels_
       /\ errorCount_' = errorCount_
       /\ pc' = "run"
       /\ stmtIndex' = stmtIndex + 1]_vars

\* run has finished a program whose first loop is 0 TO 2 STEP -1 and whose
\* second loop is 0 TO 5 STEP 1: no error, and the six calls of the second
\* loop
C15_Witness ==
  /\ pc = "finished"
  /\ Len(astRoot_) = 2
  /\ astRoot_[1].kind = "ForDrawStmt"
  /\ Mismatch(value(getExpression(astRoot_[1], 0), Zero),
              value(getExpression(astRoot_[1], 1), Zero),
              value(getExpression(astRoot_[1], 2), Zero))
  /\ value(getExpression(astRoot_[1], 2), Zero).n < 0
  /\ errorCount_ = 0
  /\ Len(drawnPixels_) = 6

-----------------------------------------------------------------------------
(* Reference notions for the transform.  In SpecDraw the program ends with *)
(* the loop FOR T FROM 0 TO 1 STEP 1 DRAW(1, T), so the k-th call of the   *)
(* callback has the raw point (1, k - 1), and every setting precedes the   *)
(* loop.                                                                   *)

RawX(k) == One
RawY(k) == IntVal(k - 1)

Pixel(x, y) == [x |-> x, y |-> y]

Coord(k) == Pixel(drawnPixels_[k].x, drawnPixels_[k].y)

\* scale, then rotate clockwise by rotAngle_, then translate
ScaleRotateTranslate(x, y) ==
  LET sx == RMul(x, scaleX_)
      sy == RMul(y, scaleY_)
      rx == RAdd(RMul(sx, RCos(rotAngle_)), RMul(sy, RSin(rotAngle_)))
      ry == RSub(RMul(sy, RCos(rotAngle_)), RMul(sx, RSin(rotAngle_)))
  IN Pixel(RAdd(rx, originX_), RAdd(ry, originY_))

(* C16: a raw point is scaled first, then rotated clockwise by the         *)
(* rotation angle, then translated by the origin.  With rotation 0 the     *)
(* point (x, y) is drawn at (x*sx + ox, y*sy + oy); with origin (100, 100) *)
(* and scale (10, 10) the raw point (1, 1) is drawn at (110, 110); a       *)
(* quarter turn alone draws the raw point (1, 0) at (0, -1).               *)
C16_ScaleRotateTranslate ==
  \A k \in 1..Len(drawnPixels_) :
    /\ Coord(k) = ScaleRotateTranslate(RawX(k), RawY(k))
    /\ IsZero(rotAngle_) =>
         Coord(k) = Pixel(RAdd(RMul(RawX(k), scaleX_), originX_),
                          RAdd(RMul(RawY(k), scaleY_), originY_))
    /\ (/\ IsZero(rotAngle_)
        /\ originX_ = IntVal(100) /\ originY_ = IntVal(100)
        /\ scaleX_ = IntVal(10) /\ scaleY_ = IntVal(10)
        /\ k = 2) => Coord(k) = Pixel(IntVal(110), IntVal(110))
    /\ (/\ rotAngle_ = Norm(1, 2, "PI")
        /\ originX_ = Zero /\ originY_ = Zero
        /\ scaleX_ = One /\ scaleY_ = One
        /\ k = 1) => Coord(k) = Pixel(Zero, IntVal(-1))

\* after SCALE IS (2, 0.5) and ROT IS PI/2 the raw point (1, 1) has been
\* drawn at (0.5, -2): scaled to (2, 0.5), then turned
C16_Witness ==
  /\ scaleX_ = IntVal(2) /\ scaleY_ = Norm(1, 2, "1")
  /\ rotAngle_ = Norm(1, 2, "PI")
  /\ Len(drawnPixels_) = 2
  /\ Coord(2) = Pixel(Norm(1, 2, "1"), IntVal(-2))

(* C17: a SIZE statement with value v sets the pen size to v exactly when  *)
(* v >= 1; otherwise the pen size stays as it was and no error is          *)
(* recorded.  The pen size is at least 1 at all times.                     *)
C17_SizeAtLeastOne ==
  /\ [](~RLess(attr_.size, One))
  /\ [][AtStatement("SizeStmt") =>
          /\ attr_' = IF ~RLess(childValue(Stmt, 0, TCell), One)
                      THEN [attr_ EXCEPT !.size = childValue(Stmt, 0, TCell)]
                      ELSE attr_
          /\ errorCount_' = errorCount_
          /\ pc' = "run"
          /\ stmtIndex' = stmtIndex + 1]_vars

\* SIZE IS 2 has set the size, and the SIZE IS 0.5 after it has left the
\* size at 2
C17_Witness ==
  /\ pc = "run"
  /\ stmtIndex = 2
  /\ astRoot_[1].kind = "SizeStmt" /\ astRoot_[2].kind = "SizeStmt"
  /\ childValue(astRoot_[1], 0, Zero) = IntVal(2)
  /\ childValue(astRoot_[2], 0, Zero) = Norm(1, 2, "1")
  /\ attr_.size = IntVal(2)
  /\ errorCount_ = 0

\* the colour of the pen
PenRGB(attr) == <<attr.r, attr.g, attr.b>>

\* the name a COLOR statement was written with
ColorNameOf(stmt) == stmt.colorName_[1].token.lexeme

(* C18: COLOR IS name sets the pen to the RGB value the colour table has   *)
(* for the name, whatever the case of its letters (RED is (255, 0, 0),     *)
(* GREEN (0, 255, 0), BLUE (0, 0, 255)); a name the table does not have    *)
(* sets the pen to red.                                                    *)
C18_ColorByName ==
  [][(AtStatement("ColorStmt") /\ Stmt.useColorName_) =>
       /\ \A e \in ColorMap_colors_ :
            CaseFold(ColorNameOf(Stmt)) = e.name =>
              PenRGB(attr_') = <<e.r, e.g, e.b>>
       /\ CaseFold(ColorNameOf(Stmt)) = <<"R", "E", "D">> =>
            PenRGB(attr_') = <<255, 0, 0>>
       /\ CaseFold(ColorNameOf(Stmt)) = <<"G", "R", "E", "E", "N">> =>
            PenRGB(attr_') = <<0, 255, 0>>
       /\ CaseFold(ColorNameOf(Stmt)) = <<"B", "L", "U", "E">> =>
            PenRGB(attr_') = <<0, 0, 255>>
       /\ (\A e \in ColorMap_colors_ : CaseFold(ColorNameOf(Stmt)) # e.name)
            => PenRGB(attr_') = <<255, 0, 0>>
       /\ attr_'.size = attr_.size]_vars

\* "COLOR IS BLUE; color is green;": the second statement, spelled in
\* lower case, has turned the blue pen green
C18_Witness ==
  /\ pc = "run"
  /\ stmtIndex = 2
  /\ astRoot_[1].kind = "ColorStmt" /\ astRoot_[2].kind = "ColorStmt"
  /\ astRoot_[2].useColorName_
  /\ ColorNameOf(astRoot_[1]) = <<"B", "L", "U", "E">>
  /\ ColorNameOf(astRoot_[2]) = <<"g", "r", "e", "e", "n">>
  /\ PenRGB(attr_) = <<0, 255, 0>>

\* the drawing state of a newly constructed analyzer
Defaults ==
  /\ originX_ = Zero /\ originY_ = Zero
  /\ scaleX_ = One /\ scaleY_ = One
  /\ rotAngle_ = Zero
  /\ PenRGB(attr_) = <<255, 0, 0>>
  /\ attr_.size = One

(* C19: a newly constructed analyzer has origin (0, 0), scale (1, 1),      *)
(* rotation 0, a red pen and pen size 1, and keeps them until run          *)
(* executes a statement.  An ORIGIN statement changes nothing but the      *)
(* origin, a SCALE statement nothing but the scale, a ROT statement        *)
(* nothing but the rotation, a COLOR statement nothing but the pen's       *)
(* colour, a SIZE statement nothing but the pen's size, and a FOR-DRAW     *)
(* statement none of them.                                                 *)
C19_DefaultsAndOwnField ==
  /\ [](pc \in {"idle", "program", "done"} => Defaults)
  /\ [][/\ AtStatement("OriginStmt") =>
             UNCHANGED <<scaleX_, scaleY_, rotAngle_, attr_>>
        /\ AtStatement("ScaleStmt") =>
             UNCHANGED <<originX_, originY_, rotAngle_, attr_>>
        /\ AtStatement("RotStmt") =>
             UNCHANGED <<originX_, originY_, scaleX_, scaleY_, attr_>>
        /\ AtStatement("ColorStmt") =>
             /\ UNCHANGED <<originX_, originY_, scaleX_, scaleY_, rotAngle_>>
             /\ attr_'.size = attr_.size
        /\ AtStatement("SizeStmt") =>
             /\ UNCHANGED <<originX_, originY_, scaleX_, scaleY_, rotAngle_>>
             /\ PenRGB(attr_') = PenRGB(attr_)
        /\ (AtStatement("ForDrawStmt") \/ pc = "drawLoop") =>
             UNCHANGED <<originX_, originY_, scaleX_, scaleY_, rotAngle_,
                         attr_>>]_vars

\* run has finished "SIZE IS 2; COLOR IS BLUE;" and the loop: the pen is
\* blue with size 2, origin, scale and rotation are as constructed, and
\* the loop has made its two calls
C19_Witness ==
  /\ pc = "finished"
  /\ Len(astRoot_) = 3
  /\ astRoot_[1].kind = "SizeStmt" /\ astRoot_[2].kind = "ColorStmt"
  /\ originX_ = Zero /\ originY_ = Zero
  /\ scaleX_ = One /\ scaleY_ = One
  /\ rotAngle_ = Zero
  /\ PenRGB(attr_) = <<0, 0, 255>>
  /\ attr_.size = IntVal(2)
  /\ Len(drawnPixels_) = 2


-----------------------------------------------------------------------------
(* Reference notions for the pen of a loop: the statements of the program  *)
(* read in source order.                                                   *)

\* the last statement before the i-th one that P holds of, or 0
LastBefore(i, P(_)) ==
  LET js == {j \in 1..(i - 1) : P(astRoot_[j])}
  IN IF js = {} THEN 0 ELSE CHOOSE j \in js : \A h \in js : h <= j

IsColorStmt(stmt) == stmt.kind = "ColorStmt"

\* a SIZE statement that asks for a size the pen can have
IsSizeStmt(stmt) ==
  stmt.kind = "SizeStmt" /\ ~RLess(childValue(stmt, 0, Zero), One)

\* the colour a COLOR statement asks for
ColorAskedBy(stmt) ==
  IF stmt.useColorName_
    THEN LET es == {e \in ColorMap_colors_ :
                      e.name = CaseFold(ColorNameOf(stmt))}
         IN IF es = {} THEN <<255, 0, 0>>
            ELSE LET e == CHOOSE e \in es : TRUE IN <<e.r, e.g, e.b>>
    ELSE <<ToUnsignedChar(childValue(stmt, 0, Zero)),
           ToUnsignedChar(childValue(stmt, 1, Zero)),
           ToUnsignedChar(childValue(stmt, 2, Zero))>>

\* colour and size as the statements before the i-th one leave them
ColorBefore(i) ==
  LET j == LastBefore(i, IsColorStmt)
  IN IF j = 0 THEN <<255, 0, 0>> ELSE ColorAskedBy(astRoot_[j])

SizeBefore(i) ==
  LET j == LastBefore(i, IsSizeStmt)
  IN IF j = 0 THEN One ELSE childValue(astRoot_[j], 0, Zero)

\* the program is loop A, COLOR IS BLUE, loop B
RedLoopBlueLoop ==
  /\ Len(astRoot_) = 3
  /\ astRoot_[1].kind = "ForDrawStmt"
  /\ astRoot_[2].kind = "ColorStmt"
  /\ astRoot_[2].useColorName_
  /\ CaseFold(ColorNameOf(astRoot_[2])) = <<"B", "L", "U", "E">>
  /\ astRoot_[3].kind = "ForDrawStmt"

(* C20: run executes the statements one after the other in source order,   *)
(* and every call of the draw callback is made by the loop being executed  *)
(* and carries the colour and the size that the most recent COLOR and      *)
(* SIZE statements before that loop have set.  In a program loop A,        *)
(* COLOR IS BLUE, loop B every point of A is red, every point of B is      *)
(* blue, and no point of A comes after a point of B.                       *)
C20_InOrderWithCurrentPen ==
  /\ [][stmtIndex' # stmtIndex => stmtIndex' = stmtIndex + 1]_vars
  /\ [][drawnPixels_' # drawnPixels_ =>
          /\ pc = "drawLoop"
          /\ Stmt.kind = "ForDrawStmt"
          /\ Len(drawnPixels_') = Len(drawnPixels_) + 1
          /\ SubSeq(drawnPixels_', 1, Len(drawnPixels_)) = drawnPixels_
          /\ LET p == drawnPixels_'[Len(drawnPixels_')]
             IN /\ PenRGB(p.attr) = ColorBefore(stmtIndex + 1)
                /\ p.attr.size = SizeBefore(stmtIndex + 1)
                /\ RedLoopBlueLoop =>
                     PenRGB(p.attr) = IF stmtIndex = 0 THEN <<255, 0, 0>>
                                      ELSE <<0, 0, 255>>]_vars
  /\ [](RedLoopBlueLoop =>
          \A i, j \in 1..Len(drawnPixels_) :
            (i < j /\ PenRGB(drawnPixels_[i].attr) = <<0, 0, 255>>)
              => PenRGB(drawnPixels_[j].attr) = <<0, 0, 255>>)

\* run has finished FOR T FROM 0 TO 5 STEP 1 ..., COLOR IS BLUE,
\* FOR T FROM 0 TO 1 STEP 0.5 ...: six red points, then three blue ones
C20_Witness ==
  /\ pc = "finished"
  /\ RedLoopBlueLoop
  /\ Len(drawnPixels_) = 9
  /\ \A k \in 1..6 : PenRGB(drawnPixels_[k].attr) = <<255, 0, 0>>
  /\ \A k \in 7..9 : PenRGB(drawnPixels_[k].attr) = <<0, 0, 255>>
  /\ drawnPixels_[6].x = IntVal(5)
  /\ drawnPixels_[9].y = IntVal(2)


-----------------------------------------------------------------------------
(* Reference notions for division: the expression nodes of a tree.         *)

RECURSIVE NodesOf(_)
NodesOf(node) ==
  IF node.kind = "Null" THEN {}
  ELSE {node} \cup
       UNION {NodesOf(node.children[k]) : k \in 1..Len(node.children)}

\* the '/' nodes of the angle of "ROT IS e;"
Divisions ==
  {n \in NodesOf(Angle) : n.kind = "BinaryExpr" /\ n.token.keyword = "Div"}

(* C21: a '/' expression whose right operand has the value 0 has the value *)
(* 0 whatever its left operand is; with a right operand r other than 0 its *)
(* value is the left operand divided by r, the number q with q * r = left. *)
C21_DivisionByZeroIsZero ==
  (pc = "done" /\ Len(astRoot_) = 1 /\ astRoot_[1].kind = "RotStmt") =>
    \A n \in Divisions :
      LET l == value(n.children[1], Zero)
          r == value(n.children[2], Zero)
      IN IF IsZero(r) THEN value(n, Zero) = Zero
         ELSE (IsRational(l) /\ IsRational(r)) =>
                RMul(value(n, Zero), r) = l

\* "ROT IS 3/0+1;": 3/0 is 0 and the angle is 1
C21_Witness ==
  /\ pc = "done"
  /\ source = <<"R", "O", "T", " ", "I", "S", " ", "3", "/", "0", "+", "1", ";">>
  /\ Divisions # {}
  /\ \A n \in Divisions : /\ value(n.children[1], Zero) = IntVal(3)
                          /\ value(n.children[2], Zero) = Zero
                          /\ value(n, Zero) = Zero
  /\ value(Angle, Zero) = One


-----------------------------------------------------------------------------
(* Reference notions for the tokens the grammar routines work with.        *)

GrammarTokenTypes ==
  {"Keyword", "Identifier", "Literal", "Operator", "Punctuation", "Eof"}

IsInvalidToken(t) == t.type = "Invalid"

IsLexicalError(e) == e.message = "Lexical error: invalid character/text"

\* the tokens of the nodes of the Program
TokensOfProgram ==
  UNION {{astRoot_[k].token}
           \cup {n.token : n \in UNION {NodesOf(astRoot_[k].expressions_[j]) :
                                   j \in 1..Len(astRoot_[k].expressions_)}}
           \cup {n.token : n \in UNION {NodesOf(astRoot_[k].colorName_[j]) :
                                   j \in 1..Len(astRoot_[k].colorName_)}} :
         k \in 1..Len(astRoot_)}

(* C22: fetchToken discards every Invalid token the scanner returns and    *)
(* records one lexical error for it, at its place.  After a call of        *)
(* fetchToken the current token is a Keyword, Identifier, Literal,         *)
(* Operator, Punctuation or end-of-input token; so are the token matched   *)
(* last, the tokens of the nodes built and the tokens the syntax errors    *)
(* report.                                                                 *)
C22_InvalidTokensDiscarded ==
  pc \in {"program", "done", "thrown"} =>
    LET discarded == SelectSeq(tokens, IsInvalidToken)
        lexical == SelectSeq(errors_, IsLexicalError)
    IN /\ currentToken_.type \in GrammarTokenTypes
       /\ lastToken_ # DefaultToken => lastToken_.type \in GrammarTokenTypes
       /\ Len(lexical) = Len(discarded)
       /\ \A k \in 1..Len(lexical) :
            /\ lexical[k].position = discarded[k].position
            /\ lexical[k].line = discarded[k].line
            /\ lexical[k].column = discarded[k].column
       /\ \A t \in TokensOfProgram : t.type \in GrammarTokenTypes
       /\ \A k \in 1..Len(errors_) :
            ~IsLexicalError(errors_[k]) =>
              \A i \in 1..Len(tokens) :
                (/\ tokens[i].position = errors_[k].position
                 /\ tokens[i].line = errors_[k].line
                 /\ tokens[i].column = errors_[k].column) =>
                  ~IsInvalidToken(tokens[i])

\* "#ORIGIN IS (100, 200);": the '#' was discarded with one lexical error
\* and the statement after it was parsed
C22_Witness ==
  /\ pc = "done"
  /\ tokens[1].type = "Invalid"
  /\ tokens[1].lexeme = <<"#">>
  /\ Len(errors_) = 1
  /\ IsLexicalError(errors_[1])
  /\ errors_[1].position = tokens[1].position
  /\ Kinds(astRoot_) = <<"OriginStmt">>


-----------------------------------------------------------------------------
(* Reference notions for matchToken's recovery.                            *)

IsGrammarToken(t) == t.type \in GrammarTokenTypes

\* the token is the expected keyword, operator or punctuation mark
IsExpected(t, expected) ==
  t.type \in {"Keyword", "Operator", "Punctuation"} /\ t.keyword = expected

IsSyntaxError(e) == e.message = "Syntax error: unexpected token"

\* the syntax error that reports token t
UnexpectedToken(t) ==
  [message |-> "Syntax error: unexpected token", lexeme |-> t.lexeme,
   line |-> t.line, column |-> t.column, position |-> t.position]

\* what a call matchToken(expected) in the current state leaves
AfterMatch(expected) == Call("matchToken", ParserState, expected)

\* the tokens that call fetches, Invalid tokens and comments left out
FetchedBy(Q) ==
  SelectSeq(SubSeq(Q.toks, Len(tokens) + 1, Len(Q.toks)), IsGrammarToken)

\* the syntax errors that call records
ReportedBy(Q) ==
  SubSeq(SelectSeq(Q.errs, IsSyntaxError),
         Len(SelectSeq(errors_, IsSyntaxError)) + 1,
         Len(SelectSeq(Q.errs, IsSyntaxError)))

\* the call discarded the current token and the first n tokens it fetched,
\* none of them the expected one or the end of input, and reported each
Discarded(Q, expected, n) ==
  LET ds == <<currentToken_>> \o SubSeq(FetchedBy(Q), 1, n)
  IN /\ \A k \in 1..Len(ds) : ~IsExpected(ds[k], expected)
     /\ \A k \in 2..Len(ds) : ds[k].type # "Eof"
     /\ ReportedBy(Q) = [k \in 1..Len(ds) |-> UnexpectedToken(ds[k])]

(* C23: with recovery enabled, matchToken(expected) at a token that is not *)
(* the expected one discards tokens one at a time, each with one syntax    *)
(* error, until it finds the expected token, which it consumes, or reaches *)
(* the end of input; it does not stop at a ';'.  When it returns, the      *)
(* current token is the token after the expected one, or the end of input. *)
(* At the expected token it consumes that token and records no error.      *)
C23_RecoveryDiscardsUntilExpected ==
  pc = "program" =>
    \A expected \in MatchExpected :
      LET Q == AfterMatch(expected)
          new == FetchedBy(Q)
          n == Len(new)
      IN /\ SubSeq(Q.toks, 1, Len(tokens)) = tokens
         /\ n >= 1
         /\ Q.cur = new[n]
         /\ IF IsExpected(currentToken_, expected)
            THEN /\ n = 1
                 /\ Q.last = currentToken_
                 /\ ReportedBy(Q) = <<>>
            ELSE \/ /\ n >= 2
                    /\ IsExpected(new[n - 1], expected)
                    /\ Q.last = new[n - 1]
                    /\ Discarded(Q, expected, n - 2)
                 \/ /\ new[n].type = "Eof"
                    /\ Q.last = currentToken_
                    /\ Discarded(Q, expected, n - 1)

\* "SCALE (1, 2;\nROT IS 0);": matchToken(R_bracket) at the 2 discards
\* 2 ; ROT IS 0 with five syntax errors, consumes the ')' and leaves the
\* last ';' as the current token
C23_Witness ==
  /\ pc = "program"
  /\ currentToken_.lexeme = <<"2">>
  /\ currentToken_.position = 11
  /\ LET Q == AfterMatch("R_bracket")
     IN /\ Len(ReportedBy(Q)) = 5
        /\ ReportedBy(Q)[2].lexeme = <<";">>
        /\ Q.last.keyword = "R_bracket"
        /\ Q.cur.keyword = "Semico"
        /\ Q.cur.position = 23


-----------------------------------------------------------------------------
(* Reference notions for the children of a statement node.                 *)

\* the numbers of expression children a statement of that kind may have
ArityOf(kind) ==
  CASE kind = "OriginStmt" -> {2}
    [] kind = "ScaleStmt" -> {2}
    [] kind = "RotStmt" -> {1}
    [] kind = "ForDrawStmt" -> {5}
    [] kind = "SizeStmt" -> {1, 2}
    [] kind = "ColorStmt" -> {3}

\* the statement was written as the well-formed FOR statement
\* "FOR T FROM 0 TO 2 STEP 1 DRAW (T, -T);"
IsTheForStatement(stmt) ==
  /\ stmt.kind = "ForDrawStmt"
  /\ stmt.token.position + Len(WellFormed[4].text) - 1 <= Len(source)
  /\ SubSeq(source, stmt.token.position,
            stmt.token.position + Len(WellFormed[4].text) - 1)
       = WellFormed[4].text

(* C24: in the Program parse() returns, with or without errors and         *)
(* recovery, no statement node has a null child, an OriginStmt and a       *)
(* ScaleStmt have 2 expressions, a RotStmt 1, a ForDrawStmt 5 (start, end, *)
(* step, x, y in this order), a SizeStmt 1 or 2, and a ColorStmt either 3  *)
(* expressions and no colour name or one colour name and no expression.    *)
C24_StatementArity ==
  pc = "done" =>
    \A k \in 1..Len(astRoot_) :
      LET stmt == astRoot_[k]
      IN /\ \A j \in 1..Len(stmt.expressions_) :
              stmt.expressions_[j].kind # "Null"
         /\ \A j \in 1..Len(stmt.colorName_) :
              stmt.colorName_[j].kind # "Null"
         /\ IF stmt.kind = "ColorStmt" /\ stmt.useColorName_
            THEN Len(stmt.colorName_) = 1 /\ stmt.expressions_ = <<>>
            ELSE /\ Len(stmt.expressions_) \in ArityOf(stmt.kind)
                 /\ stmt.colorName_ = <<>>
         /\ IsTheForStatement(stmt) =>
              /\ getExpression(stmt, 0).constValue_ = IntVal(0)
              /\ getExpression(stmt, 1).constValue_ = IntVal(2)
              /\ getExpression(stmt, 2).constValue_ = IntVal(1)
              /\ getExpression(stmt, 3).kind = "ParamExpr"
              /\ getExpression(stmt, 4).kind = "UnaryExpr"

\* "ORIGIN IS (1;" followed by the well-formed FOR statement, parsed with
\* recovery: the tokens up to the ',' of DRAW (T, -T) are discarded, and the
\* Program has one OriginStmt with the children 1 and -T
C24_Witness ==
  /\ pc = "done"
  /\ config_.recoverFromErrors
  /\ Len(errors_) > 1
  /\ Len(astRoot_) = 1
  /\ astRoot_[1].kind = "OriginStmt"
  /\ Len(astRoot_[1].expressions_) = 2
  /\ getExpression(astRoot_[1], 0).constValue_ = One
  /\ getExpression(astRoot_[1], 1).kind = "UnaryExpr"


-----------------------------------------------------------------------------
(* C25: errors never abort a run.  When executeFromString has returned     *)
(* from a source in which the parser recorded a lexical or syntax error,   *)
(* run has executed every statement that was parsed, in order, so that     *)
(* each of their draw calls has been made; the interpreter's error list is *)
(* not empty and the call has returned false.                              *)
C25_ErrorsNeverAbort ==
  (pc = "returned" /\ errors_ # <<>>) =>
    /\ stmtIndex = Len(astRoot_)
    /\ Len(drawnPixels_) = Len(run(astRoot_).calls)
    /\ interpreter.errors_ # <<>>
    /\ interpreter.returned = "false"

-----------------------------------------------------------------------------
(* A StringInputSource on its own: nextChar and ungetChar are called in    *)
(* any order on a source of at most MaxText characters.                    *)

MaxText == 4

InputAlphabet == {"a", "\n"}

RECURSIVE TextsUpTo(_)
TextsUpTo(n) ==
  IF n = 0 THEN {<<>>}
  ELSE LET shorter == TextsUpTo(n - 1)
       IN shorter \cup {Append(t, c) : t \in {s \in shorter : Len(s) = n - 1},
                                        c \in InputAlphabet}

InputSources == TextsUpTo(MaxText)

NextChar ==
  /\ input' = StringInputSource_nextChar(source, input).loc
  /\ UNCHANGED <<source, dfaType, hasMore_, dfa_, tokens, callPos, config_,
                 parseVars, errorCount_, errorLog, firstParse, interpreter, semVars>>

UngetChar ==
  /\ input' = StringInputSource_ungetChar(source, input)
  /\ UNCHANGED <<source, dfaType, hasMore_, dfa_, tokens, callPos, config_,
                 parseVars, errorCount_, errorLog, firstParse, interpreter, semVars>>

InitInput ==
  /\ source \in InputSources
  /\ LexerDefault
  /\ ParserIdle
  /\ config_ = DrawParserConfig
  /\ AnalyzerFresh("nullptr")

SpecInput == InitInput /\ [][NextChar \/ UngetChar]_vars

NewlinesBefore(src, offset) ==
  Cardinality({i \in 1..offset : src[i] = "\n"})

\* the offset of the first character of the line that offset lies in
StartOfLine(src, offset) ==
  LET ends == {i \in 1..offset : src[i] = "\n"}
  IN IF ends = {} THEN 0 ELSE CHOOSE i \in ends : \A j \in ends : j <= i

\* C26: after any sequence of nextChar and ungetChar calls on a string
\* source, line is 1 plus the number of newlines before the current offset
\* and column is (offset - start of the current line) + 1; one ungetChar
\* undoes one nextChar, restoring line, column and offset also when the
\* character rolled back is a newline, and ungetChar at offset 0 changes
\* nothing.
C26_LocationFollowsOffset ==
  /\ input.position \in 0..Len(source)
  /\ input.line = 1 + NewlinesBefore(source, input.position)
  /\ input.column = input.position - StartOfLine(source, input.position) + 1
  /\ LET read == StringInputSource_nextChar(source, input)
     IN input.position < Len(source) =>
          /\ read.c = source[input.position + 1]
          /\ read.loc.position = input.position + 1
          /\ StringInputSource_ungetChar(source, read.loc) = input
  /\ input.position = 0 =>
       StringInputSource_ungetChar(source, input) = input

\* in "a\na" the newline has been read and rolled back again: the column is
\* back at 2 on line 1, and the newline is the next character once more
C26_Witness ==
  /\ source = <<"a", "\n", "a">>
  /\ input = [position |-> 1, line |-> 1, column |-> 2]
  /\ StringInputSource_nextChar(source, input).c = "\n"
  /\ StringInputSource_nextChar(source, input).loc
       = [position |-> 2, line |-> 2, column |-> 1]
  /\ StringInputSource_ungetChar(
       source, StringInputSource_nextChar(source, input).loc) = input

-----------------------------------------------------------------------------
(* The ErrorLog after a run: sources made of the pieces of ExecSources     *)
(* that parse() returns a Program for, and of a loop with a zero step and  *)
(* a loop whose step points away from its end value.                       *)

ZeroStepLoop ==
  <<"F", "O", "R", " ", "T", " ", "F", "R", "O", "M", " ", "0", " ", "T",
    "O", " ", "1", " ", "S", "T", "E", "P", " ", "0", " ", "D", "R", "A",
    "W", "(", "T", ",", " ", "T", ")", ";", "\n">>

MismatchLoop ==
  <<"F", "O", "R", " ", "T", " ", "F", "R", "O", "M", " ", "1", " ", "T",
    "O", " ", "0", " ", "S", "T", "E", "P", " ", "1", " ", "D", "R", "A",
    "W", "(", "T", ",", " ", "T", ")", ";", "\n">>

\* the piece of ExecPieces that makes parse() throw
MissingExpression == <<"R", "O", "T", " ", "I", "S", " ", ";", "\n">>

LogPieces ==
  (ExecPieces \ {MissingExpression}) \cup {ZeroStepLoop, MismatchLoop}

LogSources == {Concat(cs) : cs \in FragSeqs(LogPieces, MaxChunks)}

InitLog ==
  /\ source \in LogSources
  /\ LexerDefault
  /\ ParserFresh
  /\ config_ = DrawParserConfig
  /\ AnalyzerFresh("parser")

SpecLog == InitLog /\ [][NextParse \/ NextRun]_vars

\* the FOR statements of the Program whose drawLoop ends with outcome
LoopsWith(outcome) ==
  Cardinality({i \in 1..Len(astRoot_) :
                 /\ astRoot_[i].kind = "ForDrawStmt"
                 /\ drawLoopEntry(astRoot_[i], Zero).outcome = outcome})

\* C27: every diagnostic of a run is in the error log's lists, with matching
\* counts: each lexical or syntax error adds one entry to the error list and
\* one to the error count, a loop with a zero step adds one error to the
\* list and to the count, a direction mismatch adds one warning to the
\* warning list and to the warning count, and after a run the error count
\* is the length of the error list.
C27_DiagnosticsQueryable ==
  pc = "finished" =>
    /\ errorCount_ = Len(errors_) + LoopsWith("zero")
    /\ Len(errorLog.errors_) = Len(errors_) + LoopsWith("zero")
    /\ errorLog.warningCount_ = LoopsWith("mismatch")
    /\ Len(errorLog.warnings_) = LoopsWith("mismatch")
    /\ errorCount_ = Len(errorLog.errors_)

-----------------------------------------------------------------------------
(* An automaton on its own: reset, feed, backtrack, saveState and          *)
(* restoreState are called in any order.  The characters fed stand for the *)
(* digits, the letters (e also opens an exponent), the point, a sign, an   *)
(* operator that can be doubled, and two characters without transition.    *)

MaxHeld == 6

DfaAlphabet == {"1", "e", ".", "-", "*", "#", HiByte}

\* the characters the automaton and its snapshots hold, one more for each
\* snapshot
Held(d) ==
  LET RECURSIVE Sum(_)
      Sum(k) == IF k = 0 THEN 0
                ELSE Sum(k - 1) + 1 + Len(d.savedStates[k].input)
  IN Len(d.processedInput) + Sum(Len(d.savedStates))

DfaFrame ==
  UNCHANGED <<source, dfaType, input, hasMore_, tokens, callPos, config_,
              parseVars, errorCount_, errorLog, firstParse, interpreter,
              semVars>>

DfaReset ==
  /\ dfa_' = DFAReset
  /\ DfaFrame

DfaFeed ==
  /\ Held(dfa_) < MaxHeld
  /\ \E c \in DfaAlphabet : dfa_' = feed(dfaType, dfa_, c).dfa
  /\ DfaFrame

DfaBacktrack ==
  /\ dfa_' = backtrack(dfaType, dfa_)
  /\ DfaFrame

DfaSaveState ==
  /\ Held(dfa_) + 1 + Len(dfa_.processedInput) <= MaxHeld
  /\ dfa_' = saveState(dfa_)
  /\ DfaFrame

DfaRestoreState ==
  /\ dfa_' = restoreState(dfa_)
  /\ DfaFrame

NextDfa ==
  DfaReset \/ DfaFeed \/ DfaBacktrack \/ DfaSaveState \/ DfaRestoreState

InitDfa ==
  /\ source = <<>>
  /\ LexerFresh
  /\ ParserIdle
  /\ config_ = DrawParserConfig
  /\ AnalyzerFresh("nullptr")

SpecDfa == InitDfa /\ [][NextDfa]_vars

\* C28: in every reachable state of either automaton, after any sequence
\* of reset, feed, backtrack, saveState and restoreState, the current state
\* is the state reached by replaying processedInput from Start (state 0)
\* and lies in 0..16, so isError never holds; backtrack after a successful
\* feed restores the state and the lexeme that held before the feed, and
\* backtrack on an empty lexeme changes nothing.
C28_StateIsReplayOfLexeme ==
  /\ dfa_.currentState = Replay(dfaType, 0, dfa_.processedInput)
  /\ dfa_.currentState \in 0..16
  /\ ~isError(dfaType, dfa_)
  /\ \A c \in DfaAlphabet :
       LET fed == feed(dfaType, dfa_, c)
       IN fed.ok => backtrack(dfaType, fed.dfa) = dfa_
  /\ dfa_.processedInput = <<>> => backtrack(dfaType, dfa_) = dfa_

\* "1e-" has been fed and its sign taken back: the automaton is in the
\* rejecting state 14 again, holding "1e", with a snapshot of "1" saved
C28_Witness ==
  /\ dfa_.processedInput = <<"1", "e">>
  /\ dfa_.currentState = 14
  /\ dfa_.savedStates = <<[state |-> 2, input |-> <<"1">>]>>
  /\ feed(dfaType, dfa_, "-").ok
  /\ feed(dfaType, dfa_, "-").dfa.currentState = 15
  /\ backtrack(dfaType, feed(dfaType, dfa_, "-").dfa) = dfa_

\* the token category the automaton reports for a lexeme read from Start
CategoryOf(kind, lexeme) ==
  LET info == updateStateInfo(kind, Replay(kind, 0, lexeme))
  IN IF info.type = "Accepting" THEN info.tokenType ELSE "Invalid"

\* C29: feed(c) in a state without transition on c returns false and
\* leaves the current state, the accepted token category, the lexeme and
\* the stack of snapshots unchanged, so the category read after the
\* rejected feed is that of the lexeme accumulated before it; feed(c) with
\* a transition returns true and appends exactly c to the lexeme.
C29_RejectedFeedChangesNothing ==
  \A c \in DfaAlphabet :
    LET fed == feed(dfaType, dfa_, c)
    IN IF move(dfaType, dfa_.currentState, c) < 0
       THEN /\ ~fed.ok
            /\ fed.dfa.currentState = dfa_.currentState
            /\ fed.dfa.processedInput = dfa_.processedInput
            /\ fed.dfa.savedStates = dfa_.savedStates
            /\ getAcceptedTokenType(dfaType, fed.dfa)
                 = getAcceptedTokenType(dfaType, dfa_)
            /\ getAcceptedTokenType(dfaType, fed.dfa)
                 = CategoryOf(dfaType, dfa_.processedInput)
       ELSE /\ fed.ok
            /\ fed.dfa.currentState = move(dfaType, dfa_.currentState, c)
            /\ fed.dfa.processedInput = Append(dfa_.processedInput, c)
            /\ fed.dfa.savedStates = dfa_.savedStates

\* the automaton holds "1." with a snapshot saved: the point has been
\* taken, a second point and a letter other than e are rejected, and the
\* lexeme is still classified as a literal
C29_Witness ==
  /\ dfa_.processedInput = <<"1", ".">>
  /\ dfa_.currentState = 3
  /\ dfa_.savedStates # <<>>
  /\ ~feed(dfaType, dfa_, ".").ok
  /\ feed(dfaType, dfa_, ".").dfa = dfa_
  /\ ~feed(dfaType, dfa_, "#").ok
  /\ feed(dfaType, dfa_, "e").ok
  /\ getAcceptedTokenType(dfaType, dfa_) = "Literal"

Snapshot(d) == [state |-> d.currentState, input |-> d.processedInput]

\* the automaton is at the snapshot, with the snapshots below it
Returned(d, snapshot, below) ==
  /\ d.currentState = snapshot.state
  /\ d.processedInput = snapshot.input
  /\ d.savedStates = below

\* what saveState followed by restoreState gives back in a state, whatever
\* is done in between
SavedThenRestored ==
  /\ restoreState(saveState(dfa_)) = dfa_
  /\ restoreState(backtrack(dfaType, saveState(dfa_))) = dfa_
  /\ \A c \in DfaAlphabet :
       LET fed == feed(dfaType, saveState(dfa_), c).dfa
       IN /\ restoreState(fed) = dfa_
          /\ restoreState(backtrack(dfaType, fed)) = dfa_
          /\ restoreState(restoreState(saveState(fed))) = dfa_
          /\ \A b \in DfaAlphabet :
               restoreState(feed(dfaType, fed, b).dfa) = dfa_
  /\ dfa_.savedStates = <<>> => restoreState(dfa_) = dfa_
  /\ dfa_.savedStates # <<>> =>
       Returned(restoreState(dfa_), dfa_.savedStates[Len(dfa_.savedStates)],
                SubSeq(dfa_.savedStates, 1, Len(dfa_.savedStates) - 1))

\* what each operation does to the stack of snapshots in a step
StackStep ==
  /\ DfaSaveState =>
       Returned(dfa_', Snapshot(dfa_),
                Append(dfa_.savedStates, Snapshot(dfa_)))
  /\ DfaRestoreState =>
       IF dfa_.savedStates = <<>> THEN dfa_' = dfa_
       ELSE Returned(dfa_', dfa_.savedStates[Len(dfa_.savedStates)],
                     SubSeq(dfa_.savedStates, 1, Len(dfa_.savedStates) - 1))
  /\ (DfaFeed \/ DfaBacktrack) => dfa_'.savedStates = dfa_.savedStates
  /\ DfaReset => dfa_'.savedStates = <<>>

\* C30: saveState pushes a (state, lexeme) snapshot; restoreState pops the
\* most recent one and returns the automaton to exactly that state and
\* lexeme whatever feeds or backtracks happened in between; snapshots nest
\* last-in first-out, restoreState on an empty stack changes nothing, and
\* reset empties the stack of snapshots.
C30_SnapshotsNestLastInFirstOut ==
  /\ []SavedThenRestored
  /\ [][StackStep]_vars

\* two snapshots are held, of the start state and of "1"; the automaton has
\* gone on to "1e-": one restoreState returns to "1", a second to the start
C30_Witness ==
  /\ dfa_.savedStates = <<[state |-> 0, input |-> <<>>],
                          [state |-> 2, input |-> <<"1">>]>>
  /\ dfa_.processedInput = <<"1", "e", "-">>
  /\ dfa_.currentState = 15
  /\ restoreState(dfa_)
       = [currentState |-> 2, processedInput |-> <<"1">>,
          savedStates |-> <<[state |-> 0, input |-> <<>>]>>]
  /\ restoreState(restoreState(dfa_)) = DFAReset

-----------------------------------------------------------------------------
(* getStats of the two encodings                                           *)

\* transitionCount_: the entries of transitions_ without the end marker
transitionCount_ == Len(TableDrivenDFA_transitions_)

TableDrivenDFA_getStats == [states |-> 17, transitions |-> transitionCount_]

HardCodedDFA_getStats == [states |-> 17, transitions |-> 28]

getStats(kind) ==
  IF kind = "TableDriven" THEN TableDrivenDFA_getStats
  ELSE HardCodedDFA_getStats

\* C31: getStats reports the same number of states and the same number of
\* transitions for the table-driven and the directly-coded encoding.
C31_StatsAgree ==
  /\ getStats(dfaType).states = getStats(OtherDFA(dfaType)).states
  /\ getStats(dfaType).transitions = getStats(OtherDFA(dfaType)).transitions

-----------------------------------------------------------------------------
\* C32: the location stored in every token nextToken returns is the
\* 1-based line and column of the token's first character, whatever
\* whitespace, line breaks or comments precede the token.
C32_TokenLocationIsFirstCharacter ==
  \A i \in 1..Len(tokens) :
    tokens[i].type # "Eof" =>
      LET t == tokens[i]
          first == t.position - 1
      IN /\ first \in 0..(Len(source) - 1)
         /\ source[first + 1] = t.lexeme[1]
         /\ ~IsBlankChar(source[first + 1])
         /\ t.line = 1 + NewlinesBefore(source, first)
         /\ t.column = first - StartOfLine(source, first) + 1
         /\ i > 1 => tokens[i - 1].position <= first

\* in "1 //c\n y\nz" the tokens after the comment are y on line 2, column 2
\* and z on line 3, column 1
C32_Witness ==
  /\ source = <<"1", " ", "/", "/", "c", "\n", " ", "y", "\n", "z">>
  /\ Len(tokens) >= 3
  /\ tokens[1].lexeme = <<"1">> /\ tokens[1].line = 1 /\ tokens[1].column = 1
  /\ tokens[2].lexeme = <<"y">> /\ tokens[2].line = 2 /\ tokens[2].column = 2
  /\ tokens[3].lexeme = <<"z">> /\ tokens[3].line = 3 /\ tokens[3].column = 1

-----------------------------------------------------------------------------
(* nextToken called again and again: the caller goes on calling while it   *)
(* may, so the call is weakly fair.                                        *)

\* what the first n calls of nextToken return, from the lexer lx on
RECURSIVE nextTokenResults(_, _, _, _)
nextTokenResults(kind, src, lx, n) ==
  IF n = 0 THEN <<>>
  ELSE LET r == SimpleLexer_nextToken(kind, src, lx)
       IN <<r>> \o nextTokenResults(kind, src, r.lx, n - 1)

\* the results of the calls a caller can make on each source: one for each
\* character at most, and MaxEofTokens more
CallFrags == {<<"x">>, <<" ">>, <<"\n">>, <<"#">>, <<".">>, <<"-">>, <<"1">>,
              <<"e">>}

CallSources == {Concat(fs) : fs \in FragSeqs(CallFrags, MaxFrags)}

ResultsOfCalls ==
  [kind \in DFATypes, src \in CallSources |->
     nextTokenResults(kind, src, InitLexer, Len(src) + MaxEofTokens)]

\* nextToken, its result read from ResultsOfCalls
NextTokenCalled ==
  /\ pc = "idle"
  /\ EofCount(tokens) < MaxEofTokens
  /\ Len(tokens) < Len(ResultsOfCalls[dfaType, source])
  /\ \E r \in {ResultsOfCalls[dfaType, source][Len(tokens) + 1]} :
        /\ input' = r.lx.input
        /\ hasMore_' = r.lx.hasMore_
        /\ dfa_' = r.lx.dfa_
        /\ tokens' = Append(tokens, r.token)
        /\ callPos' = input.position
  /\ UNCHANGED <<source, dfaType, config_, parseVars, errorCount_, errorLog,
                 firstParse, interpreter, semVars>>

InitCalls ==
  source \in CallSources /\ LexerFresh /\ ParserIdle /\ AnalyzerFresh("nullptr")

SpecLexFair ==
  InitCalls /\ [][NextTokenCalled]_vars /\ WF_vars(NextTokenCalled)

\* the result read from ResultsOfCalls is what nextToken returns in the
\* state, and the caller is never short of results
CalledIsNextToken ==
  (pc = "idle" /\ EofCount(tokens) < MaxEofTokens) =>
    /\ Len(tokens) < Len(ResultsOfCalls[dfaType, source])
    /\ ResultsOfCalls[dfaType, source][Len(tokens) + 1]
         = SimpleLexer_nextToken(dfaType, source,
             [input |-> input, hasMore_ |-> hasMore_, dfa_ |-> dfa_])

EndOfInputReturned == tokens # <<>> /\ LastToken.type = "Eof"

\* a call of nextToken returns EndOfInput or has consumed a character
CallAdvances ==
  NextTokenCalled =>
    \/ tokens'[Len(tokens')].type = "Eof"
    \/ input'.position > input.position

\* a character without transition from the start state, found where a
\* token starts, is an Invalid token of that one character, and the scan
\* goes on with the character after it
UnknownCharacterIsOneToken ==
  \A i \in 1..Len(tokens) :
    LET t == tokens[i]
        first == t.position - 1
    IN (t.type # "Eof" /\ move(dfaType, 0, source[first + 1]) < 0) =>
         /\ t.type = "Invalid"
         /\ t.lexeme = <<source[first + 1]>>
         /\ i = Len(tokens) => input.position = first + 1
         /\ (/\ i < Len(tokens)
             /\ first + 1 < Len(source)
             /\ ~IsBlankChar(source[first + 2])
             /\ ~StartsComment(source, first + 2))
              => /\ tokens[i + 1].type # "Eof"
                 /\ tokens[i + 1].position - 1 = first + 1

\* C33: every nextToken call either returns EndOfInput or consumes at least
\* one input character, so calling nextToken repeatedly on a finite input
\* eventually returns EndOfInput; a character with no transition from the
\* Start state is returned as one Invalid token whose lexeme is that single
\* character, and scanning resumes with the character after it.
C33_ScanningTerminates ==
  /\ []CalledIsNextToken
  /\ [][CallAdvances]_vars
  /\ <>EndOfInputReturned
  /\ []UnknownCharacterIsOneToken

\* "#.x" has been scanned to its end: two Invalid tokens of one character,
\* the identifier, and EndOfInput
C33_Witness ==
  /\ source = <<"#", ".", "x">>
  /\ Len(tokens) = 4
  /\ tokens[1].type = "Invalid" /\ tokens[1].lexeme = <<"#">>
  /\ tokens[2].type = "Invalid" /\ tokens[2].lexeme = <<".">>
  /\ tokens[3].type = "Identifier" /\ tokens[3].position = 3
  /\ tokens[4].type = "Eof"

-----------------------------------------------------------------------------
\* the automaton stops after lexeme in the state after the e/E of an
\* exponent (14) or after its sign (15)
StopsInExponent(kind, lexeme) == Replay(kind, 0, lexeme) \in {14, 15}

\* C34: when the automaton stops in a non-accepting intermediate state,
\* after the e/E of an exponent or after its sign with no exponent digit
\* following ("1e", "2.5E+"), the scanner returns the whole consumed lexeme
\* as one Invalid token, without backing up to the longest accepting
\* prefix, and continues scanning with the character that was rejected.
C34_OpenExponentIsInvalid ==
  \A i \in 1..Len(tokens) :
    LET t == tokens[i]
        first == t.position - 1
        end == TokEnd(t)
    IN /\ (t.type # "Eof" /\ StopsInExponent(dfaType, t.lexeme)) =>
            /\ t.type = "Invalid"
            /\ t.lexeme = SubSeq(source, first + 1, end)
            /\ end < Len(source) =>
                 move(dfaType, Replay(dfaType, 0, t.lexeme), source[end + 1])
                   < 0
            /\ (/\ i < Len(tokens)
                /\ end < Len(source)
                /\ ~IsBlankChar(source[end + 1])
                /\ ~StartsComment(source, end + 1))
                 => /\ tokens[i + 1].type # "Eof"
                    /\ tokens[i + 1].position - 1 = end
                    /\ tokens[i + 1].lexeme[1] = source[end + 1]
            /\ i = Len(tokens) =>
                 input.position =
                   IF end < Len(source) /\ source[end + 1] = "\n"
                   THEN end + 1 ELSE end
       \* no literal is the accepting prefix of an open exponent
       /\ (t.type = "Literal" /\ end < Len(source)) =>
            move(dfaType, Replay(dfaType, 0, t.lexeme), source[end + 1])
              \notin {14, 15}

\* "1ex": the token 1e is Invalid, and the x that was rejected after it is
\* the next token
C34_Witness ==
  /\ source = <<"1", "e", "x">>
  /\ Len(tokens) >= 2
  /\ tokens[1].type = "Invalid"
  /\ tokens[1].lexeme = <<"1", "e">>
  /\ tokens[2].type = "Identifier"
  /\ tokens[2].lexeme = <<"x">>
  /\ tokens[2].position = 3

-----------------------------------------------------------------------------
(* Names in expressions: "ROT IS e;" where e holds names the scanner       *)
(* returns as Identifier tokens, alone and called, the named constants,    *)
(* and a function the scanner knows as a keyword.                          *)

CalledNames ==
  {<<"f", "o", "o">>, <<"a", "b", "s">>, <<"A", "b", "s">>,
   <<"A", "B", "S">>, <<"f", "l", "o", "o", "r">>, <<"C", "e", "i", "l">>,
   <<"l", "o", "g">>, <<"a", "s", "i", "n">>, <<"A", "c", "o", "s">>,
   <<"a", "t", "a", "n">>, <<"s", "q", "r", "t">>}

PlainNames ==
  {<<"f", "o", "o">>, <<"a", "b", "s">>, <<"x">>, <<"p", "i">>,
   <<"P", "I">>, <<"e">>, <<"E">>, <<"p", "i", "e">>}

NameArgs ==
  {<<"4">>, <<"0", "-", "4">>, <<"5", "/", "2">>, <<"1">>, <<"x">>,
   <<"a", "b", "s", "(", "0", "-", "1", ")">>}

NameAtoms ==
  PlainNames
    \cup {n \o <<"(">> \o a \o <<")">> : n \in CalledNames, a \in NameArgs}
    \cup {n \o <<" ", "(">> \o a \o <<")">> :
            n \in {<<"f", "o", "o">>, <<"a", "b", "s">>}, a \in NameArgs}

NameExprs ==
  NameAtoms \cup {<<"1", "+">> \o a : a \in NameAtoms}
    \cup {a \o <<"*", "2">> : a \in NameAtoms}

NameSources ==
  {<<"R", "O", "T", " ", "I", "S", " ">> \o e \o <<";">> : e \in NameExprs}

InitName ==
  /\ source \in NameSources
  /\ LexerDefault
  /\ ParserFresh
  /\ config_ \in [recoverFromErrors : BOOLEAN]
  /\ AnalyzerFresh("nullptr")

SpecName == InitName /\ [][NextParse]_vars

\* the <cmath> function a name stands for, whatever its case
BuiltIn(upper) ==
  CASE upper = <<"A", "B", "S">> -> "ABS"
    [] upper = <<"F", "L", "O", "O", "R">> -> "FLOOR"
    [] upper = <<"C", "E", "I", "L">> -> "CEIL"
    [] upper = <<"L", "O", "G">> -> "LOG"
    [] upper = <<"A", "S", "I", "N">> -> "ASIN"
    [] upper = <<"A", "C", "O", "S">> -> "ACOS"
    [] upper = <<"A", "T", "A", "N">> -> "ATAN"
    [] upper = <<"S", "Q", "R", "T">> -> "SQRT"
    [] OTHER -> "nullptr"

\* the value of a name that is not called
NamedConstant(upper) ==
  CASE upper = <<"P", "I">> -> PIValue
    [] upper = <<"E">> -> EValue
    [] OTHER -> Zero

\* the expression nodes of the program parse() has returned
ParsedNodes ==
  UNION {UNION {NodesOf(astRoot_[k].expressions_[j]) :
                  j \in 1..Len(astRoot_[k].expressions_)} :
           k \in 1..Len(astRoot_)}

\* the tokens that are names: Identifier tokens, and the named constants
\* and functions the scanner has already classified
IsNameToken(t) ==
  /\ t.type \in {"Identifier", "Literal", "Keyword"}
  /\ t.lexeme # <<>>
  /\ IsLetterHC(t.lexeme[1])
  /\ (t.type = "Keyword" => t.keyword = "Func")

\* values of the T cell a node is evaluated under
CellValues == {Zero, One, IntVal(7)}

\* C35: in an expression, an identifier followed by "(" becomes a
\* FuncCallExpr bound to the built-in function of that name, compared
\* without regard to case, and evaluates to 0 when no built-in has that
\* name; every other identifier becomes a ConstExpr whose value is fixed
\* when the node is built (PI and E get their values, an unknown name 0);
\* neither records an error.
C35_NamesBecomeCallsOrConstants ==
  pc = "done" =>
    /\ errors_ = <<>>
    /\ \A i \in 1..Len(tokens) :
         IsNameToken(tokens[i]) =>
           LET tk == tokens[i]
               upper == toUpper(tk.lexeme)
               called == /\ i < Len(tokens)
                         /\ Token_keyword(tokens[i + 1]) = "L_bracket"
               nodes == {n \in ParsedNodes : n.token = tk}
           IN /\ nodes # {}
              /\ \A n \in nodes :
                   IF called
                   THEN /\ n.kind = "FuncCallExpr"
                        /\ n.funcPtr_ = BuiltIn(upper)
                        /\ BuiltIn(upper) = "nullptr" =>
                             \A t \in CellValues : value(n, t) = Zero
                   ELSE /\ n.kind = "ConstExpr"
                        /\ n.constValue_ = NamedConstant(upper)
                        /\ \A t \in CellValues :
                             value(n, t) = NamedConstant(upper)

\* "ROT IS Abs(0-4);" gives 4, "ROT IS foo(4);" gives 0
C35_Witness ==
  /\ pc = "done"
  /\ errors_ = <<>>
  /\ Len(astRoot_) = 1
  /\ source = <<"R", "O", "T", " ", "I", "S", " ", "A", "b", "s", "(", "0",
                "-", "4", ")", ";">>
  /\ tokens[3].type = "Identifier"
  /\ Angle.kind = "FuncCallExpr"
  /\ Angle.funcPtr_ = "ABS"
  /\ value(Angle, Zero) = IntVal(4)

-----------------------------------------------------------------------------
(* COLOR IS (r, g, b) with channel values inside and outside 0..255, and   *)
(* one that is not a number, followed by a loop that draws two points.     *)

ChannelTexts ==
  {<<"2", "5", "6">>, <<"0", "-", "1">>, <<"5", "/", "2">>,
   <<"2", "5", "4", ".", "9">>, <<"1", "e", "3">>}

\* sqrt(-1) is a NaN
NotANumber == <<"s", "q", "r", "t", "(", "0", "-", "1", ")">>

ColorStatement(r, g, b) ==
  <<"C", "O", "L", "O", "R", " ", "I", "S", " ", "(">> \o r \o <<",">>
    \o g \o <<",">> \o b \o <<")", ";", "\n">>

\* "ORIGIN IS (1,2);SCALE IS (2,2);ROT IS 0;SIZE IS 2;"
OtherSettings ==
  <<"O", "R", "I", "G", "I", "N", " ", "I", "S", " ", "(", "1", ",", "2",
    ")", ";", "S", "C", "A", "L", "E", " ", "I", "S", " ", "(", "2", ",",
    "2", ")", ";", "R", "O", "T", " ", "I", "S", " ", "0", ";", "S", "I",
    "Z", "E", " ", "I", "S", " ", "2", ";", "\n">>

ColorSources ==
  {ColorStatement(r, g, b) \o TwoPoints :
     r \in ChannelTexts \cup {NotANumber}, g \in ChannelTexts,
     b \in {<<"5", "/", "2">>, <<"1", "e", "3">>}}
    \cup {OtherSettings \o ColorStatement(r, g, <<"0">>) \o TwoPoints :
            r \in ChannelTexts, g \in ChannelTexts}

InitColor ==
  /\ source \in ColorSources
  /\ LexerDefault
  /\ ParserFresh
  /\ config_ = DrawParserConfig
  /\ AnalyzerFresh("parser")

SpecColor == InitColor /\ [][NextParse \/ NextRun]_vars

\* v clamped into [0, 255] and truncated to an integer
ClampedChannel(v) ==
  IF RLess(v, Zero) THEN 0
  ELSE IF RLess(IntVal(255), v) THEN 255
  ELSE CHOOSE k \in 0..255 :
         /\ ~RLess(v, IntVal(k))
         /\ RLess(v, IntVal(k + 1))

ChannelsInRange(attr) ==
  attr.r \in 0..255 /\ attr.g \in 0..255 /\ attr.b \in 0..255

\* every pen channel is in 0..255, in the analyzer and in every draw call
PenChannelsInRange ==
  /\ ChannelsInRange(attr_)
  /\ \A i \in 1..Len(drawnPixels_) : ChannelsInRange(drawnPixels_[i].attr)

\* executing COLOR IS (r, g, b) sets each channel whose value is a number
\* to that value clamped and truncated
ColorStmtClamps ==
  (ExecuteColorStmt /\ ~Stmt.useColorName_) =>
     LET v(k) == childValue(Stmt, k, TCell)
     IN /\ IsRational(v(0)) => attr_'.r = ClampedChannel(v(0))
        /\ IsRational(v(1)) => attr_'.g = ClampedChannel(v(1))
        /\ IsRational(v(2)) => attr_'.b = ClampedChannel(v(2))
        /\ attr_'.size = attr_.size

\* C36: COLOR IS (r, g, b) sets each pen channel to the evaluated value
\* clamped into [0, 255] and truncated to an integer (a value above 255
\* gives 255, a negative value 0), so every pen channel is in 0..255 in
\* every reachable state of the interpreter and in every draw call.
C36_ColorChannelsClamped ==
  []PenChannelsInRange /\ [][ColorStmtClamps]_vars

\* COLOR IS (256,0-1,5/2) has set the pen to (255, 0, 2) and both points
\* were drawn with it
C36_Witness ==
  /\ source = ColorStatement(<<"2", "5", "6">>, <<"0", "-", "1">>,
                             <<"5", "/", "2">>) \o TwoPoints
  /\ pc = "finished"
  /\ attr_ = [r |-> 255, g |-> 0, b |-> 2, size |-> One]
  /\ Len(drawnPixels_) = 2
  /\ \A i \in 1..2 : drawnPixels_[i].attr = attr_

-----------------------------------------------------------------------------
(* setParser before parse(), between parse() and run, or not at all.       *)

SpecAttach ==
  InitLoop /\ [][SetParser \/ SetParserAfterParse \/ NextParse \/ NextRun]_vars

\* the T occurrences of the program
ParamNodes == {n \in ParsedNodes : n.kind = "ParamExpr"}

ParamNodesOf(stmt) ==
  {n \in UNION {NodesOf(stmt.expressions_[j]) :
                  j \in 1..Len(stmt.expressions_)} : n.kind = "ParamExpr"}

\* the statements built so far stay as they are, and the T occurrences of
\* a statement that is added read the cell the parser points to at that
\* moment: its own as long as no analyzer was given the parser
CellFixedWhenBuilt ==
  /\ \A k \in 1..Len(astRoot_) : astRoot_'[k] = astRoot_[k]
  /\ \A k \in (Len(astRoot_) + 1)..Len(astRoot_') :
       \A n \in ParamNodesOf(astRoot_'[k]) :
         n.storage_ = IF parser_ = "nullptr" THEN "defaultTValue_"
                      ELSE "tStorage_"

\* the analyzer was given the parser after parse() had built the program
AttachedAfterParse ==
  /\ parser_ = "parser"
  /\ ParamNodes # {}
  /\ \A n \in ParamNodes : n.storage_ = "defaultTValue_"

\* a loop executed after a late setParser makes its calls, one per value
\* of the parameter, all with the coordinates x and y have at T = 0
LateAttachReadsZero ==
  (AttachedAfterParse /\ AfterLoop) =>
     /\ \A t \in CellValues :
          /\ value(getExpression(LoopStmt, 3), t)
               = value(getExpression(LoopStmt, 3), Zero)
          /\ value(getExpression(LoopStmt, 4), t)
               = value(getExpression(LoopStmt, 4), Zero)
     /\ \A k \in 1..pointCount :
          LoopPixels[k] =
            drawPixel(<<>>,
                      [x |-> RAdd(RMul(value(getExpression(LoopStmt, 3), Zero),
                                       scaleX_), originX_),
                       y |-> RAdd(RMul(value(getExpression(LoopStmt, 4), Zero),
                                       scaleY_), originY_)],
                      LoopPixels[k].attr)[1]
     /\ (LoopStep.n > 0 /\ ~RLess(LoopEnd, LoopStart)) =>
          pointCount = LoopCount

\* C37: the cell a T occurrence reads is fixed when its ParamExpr node is
\* built: the nodes parse() builds before an analyzer is attached to the
\* parser stay bound to the parser's own cell, setParser after parse()
\* does not rebind them, and such T occurrences evaluate to 0 in every
\* iteration of a loop instead of the current value of the parameter.
C37_CellFixedWhenNodeBuilt ==
  []LateAttachReadsZero /\ [][CellFixedWhenBuilt]_vars

\* FOR T FROM 0 TO 5 STEP 1 DRAW(T, T), parsed and then attached: six
\* calls, all at (0, 0)
C37_Witness ==
  /\ AttachedAfterParse
  /\ AfterLoop
  /\ LoopStart = Zero /\ LoopEnd = IntVal(5) /\ LoopStep = One
  /\ getExpression(LoopStmt, 3).kind = "ParamExpr"
  /\ getExpression(LoopStmt, 4).kind = "ParamExpr"
  /\ tStorage_ = IntVal(6)
  /\ pointCount = 6
  /\ \A k \in 1..6 : LoopPixels[k].x = Zero /\ LoopPixels[k].y = Zero

-----------------------------------------------------------------------------
(* Termination of drawLoop.  The step is constant and the loop runs while  *)
(* tStorage_ <= endVal, so the loop makes finitely many iterations exactly *)
(* when each iteration takes the parameter nearer to passing endVal.       *)

\* how far the parameter is from passing endVal
LoopDistance(t) == RSub(loopEndVal, t)

\* C38: executing a FOR-DRAW statement always terminates: for all start
\* and end values and every nonzero step, positive or negative, the case
\* start = end included, drawLoop makes finitely many iterations and
\* returns, so that run terminates for every program.  Every iteration
\* therefore leaves the parameter nearer to passing endVal than it found
\* it.
C38_LoopTerminates ==
  [][DrawLoopBody =>
       RLess(LoopDistance(tStorage_'), LoopDistance(tStorage_))]_vars

-----------------------------------------------------------------------------
(* A second executeFromString on the same DrawLangInterpreter.  firstParse *)
(* keeps what the first call returned and the settings it left behind.     *)

\* the transform and the pen of the analyzer
AnalyzerSettings ==
  [originX_ |-> originX_, originY_ |-> originY_, scaleX_ |-> scaleX_,
   scaleY_ |-> scaleY_, rotAngle_ |-> rotAngle_, attr_ |-> attr_]

\* the loop drawing (0, 0) and (1, 1), alone and after a lexical error
DrawsTwo == ExecSources \cap {s \in ExecSources : Len(s) = 37 /\ s[1] = "F"}

AgainSources ==
  DrawsTwo \cup {<<"#">> \o s : s \in DrawsTwo}
    \cup {<<"S", "I", "Z", "E", " ", "I", "S", " ", "3", ";", "\n">>}

\* executeFromString that starts with a new analyzer
ExecuteFromString_NewAnalyzer ==
  /\ pc = "returned"
  /\ firstParse = <<>>
  /\ firstParse' = <<[returned |-> interpreter.returned,
                      errors_ |-> interpreter.errors_,
                      settings |-> AnalyzerSettings]>>
  /\ source' \in AgainSources
  /\ interpreter' = [errors_ |-> <<>>, returned |-> "nothing"]
  /\ dfaType' = "TableDriven"
  /\ \E lx \in {createLexerFromString(source', "TableDriven")} :
        /\ input' = lx.input
        /\ hasMore_' = lx.hasMore_
        /\ dfa_' = lx.dfa_
  /\ tokens' = <<>>
  /\ callPos' = 0
  /\ config_' = DrawParserConfig
  /\ currentToken_' = DefaultToken
  /\ lastToken_' = DefaultToken
  /\ astRoot_' = <<>>
  /\ errors_' = <<>>
  /\ iterPos' = 0
  /\ parser_' = "parser"
  /\ pc' = "idle"
  /\ originX_' = Zero /\ originY_' = Zero
  /\ scaleX_' = One /\ scaleY_' = One
  /\ rotAngle_' = Zero
  /\ attr_' = PixelAttribute
  /\ UNCHANGED <<errorCount_, errorLog, tStorage_, drawnPixels_, stmtIndex,
                 loopEndVal, loopStepVal, pointCount>>

\* executeFromString up to the call of parse(): errors_.clear(), a new
\* lexer and a new parser over the source, and
\* semanticAnalyzer_->setParser on the analyzer made by the constructor
ExecuteFromString ==
  /\ pc = "returned"
  /\ firstParse = <<>>
  /\ firstParse' = <<[returned |-> interpreter.returned,
                      errors_ |-> interpreter.errors_,
                      settings |-> AnalyzerSettings]>>
  /\ source' \in AgainSources
  /\ interpreter' = [errors_ |-> <<>>, returned |-> "nothing"]
  /\ dfaType' = "TableDriven"
  /\ \E lx \in {createLexerFromString(source', "TableDriven")} :
        /\ input' = lx.input
        /\ hasMore_' = lx.hasMore_
        /\ dfa_' = lx.dfa_
  /\ tokens' = <<>>
  /\ callPos' = 0
  /\ config_' = DrawParserConfig
  /\ currentToken_' = DefaultToken
  /\ lastToken_' = DefaultToken
  /\ astRoot_' = <<>>
  /\ errors_' = <<>>
  /\ iterPos' = 0
  /\ parser_' = "parser"
  /\ pc' = "idle"
  /\ UNCHANGED <<errorCount_, errorLog, originX_, originY_, scaleX_, scaleY_,
                 rotAngle_, tStorage_, attr_, drawnPixels_, stmtIndex,
                 loopEndVal, loopStepVal, pointCount>>

SpecAgain == InitExec /\ [][NextExec \/ ExecuteFromString]_vars

SecondCall == firstParse # <<>>

\* the second call sets nothing itself
OnlyDraws == source \in DrawsTwo \/ (source[1] = "#" /\ Tail(source) \in DrawsTwo)

\* C39: a DrawLangInterpreter keeps one analyzer for its whole lifetime, so
\* the interpreter state is not reset between runs: origin, scale,
\* rotation, pen colour and pen size set by one executeFromString call are
\* still in effect at the start of the next call on the same interpreter,
\* while the error list is cleared at the start of each call.
C39_SettingsOutliveTheCall ==
  /\ (SecondCall /\ pc = "idle") =>
       /\ AnalyzerSettings = firstParse[1].settings
       /\ interpreter.errors_ = <<>>
  \* the list holds the errors of the second call alone
  /\ (SecondCall /\ pc \in {"program", "done", "thrown"}) =>
       interpreter.errors_ = <<>>
  /\ (SecondCall /\ pc \in {"run", "drawLoop", "finished"}) =>
       Len(interpreter.errors_) = Len(errors_)
  /\ (SecondCall /\ OnlyDraws) =>
       /\ AnalyzerSettings = firstParse[1].settings
       /\ pc = "returned" =>
            /\ Len(drawnPixels_) >= 2
            /\ \A k \in 0..1 :
                 drawnPixels_[Len(drawnPixels_) - 1 + k] =
                   [x |-> RAdd(RMul(IntVal(k), scaleX_), originX_),
                    y |-> RAdd(RMul(IntVal(k), scaleY_), originY_),
                    attr |-> firstParse[1].settings.attr_]

\* the first call set origin (1, 1), scale (2, 2), a blue pen of size 2
\* and recorded an error; the second call, the loop alone, has returned
\* true after drawing (1, 1) and (3, 3) in blue
C39_Witness ==
  /\ SecondCall
  /\ pc = "returned"
  /\ source \in DrawsTwo
  /\ firstParse[1].errors_ # <<>>
  /\ firstParse[1].returned = "false"
  /\ interpreter = [errors_ |-> <<>>, returned |-> "true"]
  /\ originX_ = One /\ scaleX_ = IntVal(2)
  /\ attr_ = [r |-> 0, g |-> 0, b |-> 255, size |-> IntVal(2)]
  /\ drawnPixels_[Len(drawnPixels_)] =
       [x |-> IntVal(3), y |-> IntVal(3), attr |-> attr_]

-----------------------------------------------------------------------------
(* tokenizeAll called on a scanner as constructed.  pc is "tokenized" once *)
(* the call has returned, and tokens is then the list it returned.         *)

\* tokenizeAll's loop from the scanner state lx on, toks being the tokens
\* pushed so far: [tokens, lx]
RECURSIVE tokenizeAll(_, _, _, _)
tokenizeAll(kind, src, lx, toks) ==
  LET Pushed(r) ==
        IF r.token.type = "Eof"
        THEN [tokens |-> Append(toks, r.token), lx |-> r.lx]
        ELSE tokenizeAll(kind, src, r.lx, Append(toks, r.token))
  IN IF ~SimpleLexer_hasMoreTokens(src, lx) THEN [tokens |-> toks, lx |-> lx]
     ELSE Pushed(SimpleLexer_nextToken(kind, src, lx))

TokenizeAll ==
  /\ pc = "idle"
  /\ tokens = <<>>
  /\ \E r \in {tokenizeAll(dfaType, source,
                           [input |-> input, hasMore_ |-> hasMore_,
                            dfa_ |-> dfa_], <<>>)} :
        /\ input' = r.lx.input
        /\ hasMore_' = r.lx.hasMore_
        /\ dfa_' = r.lx.dfa_
        /\ tokens' = r.tokens
  /\ callPos' = input.position
  /\ pc' = "tokenized"
  /\ UNCHANGED <<source, dfaType, config_, currentToken_, lastToken_,
                 astRoot_, errors_, iterPos, errorCount_, errorLog,
                 firstParse, interpreter, semVars>>

SpecAll == InitCalls /\ [][TokenizeAll]_vars

\* C40: tokenizeAll on any input, the empty input and an input whose last
\* token is directly followed by the end of input included, returns a list
\* of tokens that holds exactly one EndOfInput token, as its last element.
C40_ListEndsWithOneEndOfInput ==
  pc = "tokenized" =>
    /\ EofCount(tokens) = 1
    /\ tokens[Len(tokens)].type = "Eof"

=============================================================================
